---- MODULE Spec2Model ----
(***************************************************************************)
(* The streaming benchmark engine of ai-speedometer (src/cli.js):          *)
(* benchmarkSingleModelRest drives one request, runRestApiBenchmark fans   *)
(* a batch out, joins it with Promise.all and hands the results to         *)
(* displayColorfulResults, which ranks the successful ones.                *)
(*                                                                         *)
(* JavaScript runs one task at a time: the code between two awaits is one  *)
(* atomic step. Every await of the code (fetch, response.text(),           *)
(* reader.read()) is a position ("pc") of a request, at which the other    *)
(* requests and the clock may move.                                        *)
(*                                                                         *)
(* Around the engine: the headless run of cli.js, the summary and the      *)
(* tracker of benchmark-rest.js, the recent models and the custom          *)
(* providers of ai-config.js, the models.dev catalog and the provider      *)
(* stores of opencode-integration.js, each with a specification of its     *)
(* own.                                                                    *)
(***************************************************************************)
EXTENDS Integers, Sequences, FiniteSets, TLC

\* ---------------------------------------------------------------- bounds
NumModels == 2      \* models of a batch
MaxChunks == 2      \* network chunks of one response body
MaxTime == 3        \* the clock stops advancing here
MaxPromptLen == 2   \* characters of the test prompt
MaxResults == 3     \* results handed to the display

\* ------------------------------------------------------- the wire: lines
\* One line of a response body. prefix is what the line starts with
\* ("data: ", "event: " or nothing); kind says what follows the prefix: a
\* JSON object ("json"), the sentinel [DONE] ("done"), or text that
\* JSON.parse rejects ("bad"). A JSON object carries the fields the decoder
\* looks at: type, text (the delta, a sequence of characters, <<>> when
\* absent or empty), usage (the Anthropic message.usage object is present),
\* inTok / outTok (<<>> when the field is absent, <<n>> when it is n).
Line(prefix, kind, type, text, usage, inTok, outTok) ==
    [prefix |-> prefix, kind |-> kind, type |-> type, text |-> text,
     usage |-> usage, inTok |-> inTok, outTok |-> outTok]

Json(prefix, type, text, usage, inTok, outTok) ==
    Line(prefix, "json", type, text, usage, inTok, outTok)

DoneLine == Line("data: ", "done", "", <<>>, FALSE, <<>>, <<>>)
BadLine(prefix) == Line(prefix, "bad", "", <<>>, FALSE, <<>>, <<>>)
EventLine == Line("event: ", "bad", "", <<>>, FALSE, <<>>, <<>>)

\* JS truthiness of an optional number: absent and 0 are both falsy.
Num(opt) == IF opt = <<>> THEN 0 ELSE opt[1]

\* ------------------------------------------------- the decoder, per line
\* The decoder's accumulators: the locals streamedText, inputTokens and
\* outputTokens of benchmarkSingleModelRest. "parsed" is history, not a
\* local of the code: the JSON objects JSON.parse has returned so far.
Acc(text, inTok, outTok, parsed) ==
    [streamedText |-> text, inputTokens |-> inTok, outputTokens |-> outTok,
     parsed |-> parsed]

\* What the body of the for loop does with one line: "skip" (continue, or a
\* caught parse error), "break", or "step" with the new accumulators.
Outcome(ctl, acc) == [ctl |-> ctl, acc |-> acc]

\* The catch block leaving the for loop: the other lines of the chunk are
\* dropped.
ParseErrorEndsChunk(acc) == Outcome("break", acc)

\* cli.js 1926-1929: JSON.parse throws, the catch block continues with the
\* next line.
ParseError(acc) == Outcome("skip", acc)

\* An Anthropic event, the input_tokens of a message_delta replacing a
\* count already held.
AnthropicEventLaterInputWins(chunk, acc) ==
    LET seen == Append(acc.parsed, chunk) IN
    IF chunk.type = "content_block_delta" /\ chunk.text # <<>>
    THEN Acc(acc.streamedText \o chunk.text, acc.inputTokens,
             acc.outputTokens, seen)
    ELSE IF chunk.type = "message_start" /\ chunk.usage
    THEN Acc(acc.streamedText, Num(chunk.inTok), acc.outputTokens, seen)
    ELSE IF chunk.type = "message_delta"
    THEN Acc(acc.streamedText,
             IF Num(chunk.inTok) # 0
                 THEN Num(chunk.inTok) ELSE acc.inputTokens,
             IF Num(chunk.outTok) # 0
                 THEN Num(chunk.outTok) ELSE acc.outputTokens,
             seen)
    ELSE Acc(acc.streamedText, acc.inputTokens, acc.outputTokens, seen)

\* cli.js 1859-1872 and 1880-1891: one Anthropic event.
AnthropicEvent(chunk, acc) ==
    LET seen == Append(acc.parsed, chunk) IN
    IF chunk.type = "content_block_delta" /\ chunk.text # <<>>
    THEN Acc(acc.streamedText \o chunk.text, acc.inputTokens,
             acc.outputTokens, seen)
    ELSE IF chunk.type = "message_start" /\ chunk.usage
    THEN Acc(acc.streamedText, Num(chunk.inTok), acc.outputTokens, seen)
    ELSE IF chunk.type = "message_delta"
    THEN Acc(acc.streamedText,
             IF Num(chunk.inTok) # 0 /\ acc.inputTokens = 0
                 THEN Num(chunk.inTok) ELSE acc.inputTokens,
             IF Num(chunk.outTok) # 0
                 THEN Num(chunk.outTok) ELSE acc.outputTokens,
             seen)
    ELSE Acc(acc.streamedText, acc.inputTokens, acc.outputTokens, seen)

\* Only the `data: ` lines of an Anthropic stream decoded, as for an
\* OpenAI-compatible one.
AnthropicLineSseOnly(line, acc) ==
    IF line.prefix = "data: "
    THEN IF line.kind = "done" THEN Outcome("break", acc)
         ELSE IF line.kind = "json"
              THEN Outcome("step", AnthropicEvent(line, acc))
              ELSE ParseError(acc)
    ELSE Outcome("skip", acc)

\* cli.js 1851-1892
AnthropicLine(line, acc) ==
    IF line.prefix = "data: "
    THEN IF line.kind = "done" THEN Outcome("break", acc)
         ELSE IF line.kind = "json"
              THEN Outcome("step", AnthropicEvent(line, acc))
              ELSE ParseError(acc)
    ELSE IF line.prefix = "event: " THEN Outcome("skip", acc)
    ELSE IF line.kind = "json"
         THEN Outcome("step", AnthropicEvent(line, acc))
         ELSE ParseError(acc)

\* cli.js 1893-1905
GoogleLine(line, acc) ==
    IF line.prefix = "" /\ line.kind = "json"
    THEN Outcome("step",
             Acc(acc.streamedText \o line.text,
                 IF Num(line.inTok) # 0
                     THEN Num(line.inTok) ELSE acc.inputTokens,
                 IF Num(line.outTok) # 0
                     THEN Num(line.outTok) ELSE acc.outputTokens,
                 Append(acc.parsed, line)))
    ELSE ParseError(acc)

\* cli.js 1906-1925
OpenAILine(line, acc) ==
    IF line.prefix = "data: "
    THEN IF line.kind = "done" THEN Outcome("break", acc)
         ELSE IF line.kind = "json"
              THEN Outcome("step",
                       Acc(acc.streamedText \o line.text,
                           IF Num(line.inTok) # 0
                               THEN Num(line.inTok) ELSE acc.inputTokens,
                           IF Num(line.outTok) # 0
                               THEN Num(line.outTok) ELSE acc.outputTokens,
                           Append(acc.parsed, line)))
              ELSE ParseError(acc)
    ELSE Outcome("skip", acc)

\* cli.js 1850-1929: the try block of the loop body, by provider type.
DecodeLine(providerType, line, acc) ==
    IF providerType = "anthropic" THEN AnthropicLine(line, acc)
    ELSE IF providerType = "google" THEN GoogleLine(line, acc)
    ELSE OpenAILine(line, acc)

\* ------------------------------------------------- the line buffer
\* A network chunk is a sequence of items. An item is a piece of a line
\* (the "whole" line, its first half "head" or its second half "tail"),
\* followed by a newline or not. The buffer holds the pieces received after
\* the last newline.
Item(line, part, nl) == [line |-> line, part |-> part, nl |-> nl]
Piece(item) == [line |-> item.line, part |-> item.part]
BlankLine == Line("", "blank", "", <<>>, FALSE, <<>>, <<>>)

\* cli.js 1842-1844: buffer += chunk; lines = buffer.split('\n');
\* buffer = lines.pop(). A blank piece adds no character.
RECURSIVE SplitLines(_, _, _)
SplitLines(buffer, chunk, lines) ==
    IF chunk = <<>> THEN [lines |-> lines, buffer |-> buffer]
    ELSE LET it == Head(chunk)
             cur == IF it.line.kind = "blank" THEN buffer
                    ELSE Append(buffer, Piece(it))
         IN IF it.nl THEN SplitLines(<<>>, Tail(chunk), Append(lines, cur))
            ELSE SplitLines(cur, Tail(chunk), lines)

\* The text of a line, from its pieces: a whole line, or a head followed by
\* its own tail, is that line; any other concatenation is text that
\* JSON.parse rejects, behind the prefix of its first piece.
TrimmedLine(pieces) ==
    IF pieces = <<>> THEN BlankLine
    ELSE IF Len(pieces) = 1 /\ pieces[1].part = "whole" THEN pieces[1].line
    ELSE IF /\ Len(pieces) = 2
            /\ pieces[1].part = "head" /\ pieces[2].part = "tail"
            /\ pieces[1].line = pieces[2].line
         THEN pieces[1].line
    ELSE IF pieces[1].part = "tail" THEN BadLine("")
    ELSE BadLine(pieces[1].line.prefix)

\* cli.js 1846-1930: the for loop over the complete lines of one chunk.
\* sentinel is history: the loop has left through a break.
RECURSIVE DecodeLines(_, _, _)
DecodeLines(providerType, lines, acc) ==
    IF lines = <<>> THEN [acc |-> acc, sentinel |-> FALSE]
    ELSE LET trimmedLine == TrimmedLine(Head(lines)) IN
         IF trimmedLine.kind = "blank"
         THEN DecodeLines(providerType, Tail(lines), acc)
         ELSE LET o == DecodeLine(providerType, trimmedLine, acc) IN
              IF o.ctl = "break" THEN [acc |-> acc, sentinel |-> TRUE]
              ELSE DecodeLines(providerType, Tail(lines), o.acc)

\* ------------------------------------------------- one request's locals
\* firstTokenTime = 0 is the code's null (Date.now() is never 0).
Locals(pc, startTime, firstTokenTime, isFirstChunk, buffer, acc) ==
    [pc |-> pc, startTime |-> startTime, firstTokenTime |-> firstTokenTime,
     isFirstChunk |-> isFirstChunk, buffer |-> buffer, acc |-> acc]

NoLocals == Locals("pending", 0, 0, TRUE, <<>>, Acc(<<>>, 0, 0, <<>>))

\* The time taken anew at every chunk: the guard left out.
LatestChunkTime(st, clock) == clock

\* cli.js 1831-1840
FirstTokenTime(st, clock) ==
    IF st.isFirstChunk /\ st.firstTokenTime = 0 THEN clock
    ELSE st.firstTokenTime

\* cli.js 1831-1930: the body of the while loop for one chunk.
OnChunk(providerType, st, chunk, clock) ==
    LET split == SplitLines(st.buffer, chunk, <<>>)
        dec == DecodeLines(providerType, split.lines, st.acc)
    IN [st |-> Locals("read", st.startTime, FirstTokenTime(st, clock),
                      IF st.isFirstChunk /\ st.firstTokenTime = 0
                          THEN FALSE ELSE st.isFirstChunk,
                      split.buffer, dec.acc),
        sentinel |-> dec.sentinel]

\* Math.floor(length / 4)
FloorQuarter(length) == length \div 4

\* Math.round(length / 4): to the nearest integer, a half upwards.
RoundQuarter(length) == (length + 2) \div 4

\* Tokens per millisecond: the factor 1000 left out.
TokensPerMillisecond(totalTokens, totalTime) ==
    IF totalTime > 0 THEN [num |-> totalTokens, den |-> totalTime]
    ELSE [num |-> 0, den |-> 1]

\* cli.js 1943: a quotient of integers, kept as a fraction.
TokensPerSecond(totalTokens, totalTime) ==
    IF totalTime > 0 THEN [num |-> totalTokens * 1000, den |-> totalTime]
    ELSE [num |-> 0, den |-> 1]

\* The time of the first chunk taken as null when no chunk came: 0.
TimeToFirstTokenOrZero(st, totalTime) ==
    IF st.firstTokenTime # 0 THEN st.firstTokenTime - st.startTime ELSE 0

\* cli.js 1935
TimeToFirstToken(st, totalTime) ==
    IF st.firstTokenTime # 0 THEN st.firstTokenTime - st.startTime
    ELSE totalTime

\* The flag set when the provider's count is used.
UsedEstimateInverted(providerCount) == providerCount # 0

\* cli.js 1938-1939: !outputTokens, !inputTokens
UsedEstimate(providerCount) == providerCount = 0

\* cli.js 1940-1941: providerCount || Math.round(length / 4)
FinalTokens(providerCount, length) ==
    IF providerCount # 0 THEN providerCount ELSE RoundQuarter(length)

\* The output tokens alone.
TotalTokensOutputOnly(finalInputTokens, finalOutputTokens) ==
    finalOutputTokens

\* cli.js 1942
TotalTokens(finalInputTokens, finalOutputTokens) ==
    finalInputTokens + finalOutputTokens

\* cli.js 1933-1957
Finalize(model, st, clock, promptLength) ==
    LET totalTime == clock - st.startTime
        timeToFirstToken == TimeToFirstToken(st, totalTime)
        finalOutputTokens ==
            FinalTokens(st.acc.outputTokens, Len(st.acc.streamedText))
        finalInputTokens == FinalTokens(st.acc.inputTokens, promptLength)
        totalTokens == TotalTokens(finalInputTokens, finalOutputTokens)
    IN [model |-> model.name, provider |-> model.providerName,
        totalTime |-> totalTime, timeToFirstToken |-> timeToFirstToken,
        tokenCount |-> finalOutputTokens,
        tokensPerSecond |-> TokensPerSecond(totalTokens, totalTime),
        promptTokens |-> finalInputTokens, totalTokens |-> totalTokens,
        usedEstimateForOutput |-> UsedEstimate(st.acc.outputTokens),
        usedEstimateForInput |-> UsedEstimate(st.acc.inputTokens),
        success |-> TRUE]

\* The failed record without the error's text.
FailedWithoutMessage(model, message) ==
    [model |-> model.name, provider |-> model.providerName,
     totalTime |-> 0, timeToFirstToken |-> 0, tokenCount |-> 0,
     tokensPerSecond |-> [num |-> 0, den |-> 1], promptTokens |-> 0,
     totalTokens |-> 0, success |-> FALSE, error |-> <<>>]

\* cli.js 1959-1972: the catch block; message is error.message.
Failed(model, message) ==
    [model |-> model.name, provider |-> model.providerName,
     totalTime |-> 0, timeToFirstToken |-> 0, tokenCount |-> 0,
     tokensPerSecond |-> [num |-> 0, den |-> 1], promptTokens |-> 0,
     totalTokens |-> 0, success |-> FALSE, error |-> message]

\* The try block ending before the stream is read: an error of
\* reader.read() leaves the call and rejects its promise.
CatchBeforeStream(position, model, message) ==
    IF position = "read" THEN [pc |-> "rejected", value |-> <<>>]
    ELSE [pc |-> "resolved", value |-> <<Failed(model, message)>>]

\* A catch block that calls fetch again when fetch has failed: the call
\* awaits the new fetch.
CatchAndRetry(position, model, message) ==
    IF position = "fetch" THEN [pc |-> "fetch", value |-> <<>>]
    ELSE [pc |-> "resolved", value |-> <<Failed(model, message)>>]

\* cli.js 1727 and 1959: everything from the configuration check to the
\* return of the result runs inside one try block, so an error thrown at
\* any position ("config", "fetch", "status", "text", "read") settles the
\* request with the catch block's record.
Catch(position, model, message) ==
    [pc |-> "resolved", value |-> <<Failed(model, message)>>]

\* ------------------------------------------------------------- the wire
\* What the servers of the model send. Token counts 14 and 50 are reported
\* counts, 7 a second, different one; 0 is a reported count of zero.
Whole(line) == Item(line, "whole", TRUE)

Delta(prefix, type, text) == Json(prefix, type, text, FALSE, <<>>, <<>>)
Usage(prefix, type, inTok, outTok) ==
    Json(prefix, type, <<>>, TRUE, inTok, outTok)

OpenAIChunks ==
    LET a == Delta("data: ", "chunk", <<"a">>)
        bc == Delta("data: ", "chunk", <<"b", "c">>)
    IN {<<Whole(a)>>,
        <<Whole(bc), Whole(BlankLine)>>,
        <<Whole(Usage("data: ", "chunk", <<14>>, <<50>>))>>,
        <<Whole(Usage("data: ", "chunk", <<0>>, <<0>>))>>,
        <<Whole(Usage("data: ", "chunk", <<7>>, <<>>))>>,
        <<Whole(DoneLine)>>,
        <<Whole(DoneLine), Whole(a)>>,
        <<Whole(BadLine("data: "))>>,
        <<Whole(BadLine(""))>>,
        <<Whole(a), Whole(BadLine("data: ")),
          Whole(Usage("data: ", "chunk", <<14>>, <<50>>))>>,
        <<Item(bc, "head", FALSE)>>,
        <<Item(bc, "tail", TRUE)>>,
        <<Item(a, "whole", FALSE)>>,
        <<>>}

AnthropicChunks ==
    LET a == Delta("data: ", "content_block_delta", <<"a">>)
        bc == Delta("", "content_block_delta", <<"b", "c">>)
    IN {<<Whole(EventLine), Whole(a)>>,
        <<Whole(bc), Whole(BlankLine)>>,
        <<Whole(EventLine), Whole(Usage("", "message_start", <<14>>, <<1>>))>>,
        <<Whole(Usage("data: ", "message_start", <<0>>, <<>>))>>,
        <<Whole(Usage("data: ", "message_delta", <<7>>, <<50>>))>>,
        <<Whole(Usage("", "message_delta", <<>>, <<0>>))>>,
        <<Whole(Delta("data: ", "ping", <<>>))>>,
        <<Whole(DoneLine)>>,
        <<Whole(DoneLine), Whole(a)>>,
        <<Whole(BadLine("data: "))>>,
        <<Whole(a), Whole(BadLine("")),
          Whole(Usage("data: ", "message_delta", <<7>>, <<50>>))>>,
        <<Item(bc, "head", FALSE)>>,
        <<Item(bc, "tail", TRUE)>>,
        <<Item(a, "whole", FALSE)>>,
        <<>>}

GoogleChunks ==
    LET a == Json("", "chunk", <<"a">>, FALSE, <<>>, <<>>)
        bc == Json("", "chunk", <<"b", "c">>, TRUE, <<14>>, <<50>>)
    IN {<<Whole(a)>>,
        <<Whole(bc), Whole(BlankLine)>>,
        <<Whole(Usage("", "chunk", <<0>>, <<0>>))>>,
        <<Whole(Usage("", "chunk", <<7>>, <<>>))>>,
        <<Whole(Delta("data: ", "chunk", <<"a">>))>>,
        <<Whole(BadLine(""))>>,
        <<Whole(a), Whole(BadLine("")), Whole(bc)>>,
        <<Item(bc, "head", FALSE)>>,
        <<Item(bc, "tail", TRUE)>>,
        <<Item(a, "whole", FALSE)>>,
        <<>>}

\* Every chunk a server of the provider type may send. reader.read() never
\* returns a chunk of no bytes; the chunk <<>> is bytes that give the
\* buffer no character (the first bytes of a character, which
\* decoder.decode(value, {stream: true}) holds back).
AnyChunk(providerType) ==
    IF providerType = "anthropic" THEN AnthropicChunks
    ELSE IF providerType = "google" THEN GoogleChunks
    ELSE OpenAIChunks

\* The chunks of the servers of a batch: whole lines only.
BatchChunk(providerType) ==
    IF providerType = "anthropic"
    THEN {<<Whole(Delta("data: ", "content_block_delta", <<"a">>)),
            Whole(Usage("data: ", "message_delta", <<7>>, <<50>>))>>}
    ELSE IF providerType = "google"
    THEN {<<Whole(BadLine("")),
            Whole(Json("", "chunk", <<"b", "c">>, TRUE, <<14>>, <<50>>))>>}
    ELSE {<<Whole(Delta("data: ", "chunk", <<"a">>)), Whole(DoneLine)>>}

\* The chunks of a server under the clock: those of a batch, and a chunk
\* from which nothing can be decoded (a line that is no JSON object and, to
\* an OpenAI-compatible decoder, no `data: ` line).
TimedChunk(providerType) ==
    BatchChunk(providerType) \cup {<<Whole(BadLine(""))>>}

TimedFeed == [t \in {"openai-compatible", "anthropic", "google"} |-> TimedChunk(t)]
BatchFeed == [t \in {"openai-compatible", "anthropic", "google"} |-> BatchChunk(t)]
AnyFeed == [t \in {"openai-compatible", "anthropic", "google"} |-> AnyChunk(t)]

Statuses == {"200", "401", "500"}
StatusText(status) ==
    IF status = "200" THEN "OK"
    ELSE IF status = "401" THEN "Unauthorized"
    ELSE "Internal Server Error"
\* The body of a response: the text of an error response, "" otherwise.
Body(status) ==
    IF status = "200" THEN ""
    ELSE IF status = "401" THEN "{\"error\":\"invalid api key\"}"
    ELSE "upstream failure"

ProviderTypes == {"openai-compatible", "anthropic", "google"}
\* A missing (empty or absent) apiKey is "": both are falsy.
ApiKeys == {"", "sk-key"}
\* A base URL is the sequence of its text and, when it ends with one, a
\* final "/"; a missing (empty or absent) one is <<>>.
BaseUrls == {<<>>, <<"https://api.example/v1">>}
SlashUrls == BaseUrls \cup {<<"https://api.example/v1", "/">>}
\* model.id is the sequence of the pieces its text has between underscores,
\* <<>> when the model has no id.
NoIds == {<<>>}
Ids == {<<>>, <<"gemini-pro">>, <<"google", "gemini-pro">>}

\* ---------------------------------------------------------- the request
\* cli.js 1738-1742: model.name, or the second piece of an id that includes
\* an underscore. The names and ids of the model carry no white space
\* around them, so trim() has nothing to remove.
ActualModelId(model) ==
    IF Len(model.id) > 1 THEN model.id[2] ELSE model.name

\* cli.js 1750-1757
Endpoint(model) ==
    IF model.providerType = "anthropic" THEN <<"/messages">>
    ELSE IF model.providerType = "google"
    THEN <<"/models/", ActualModelId(model), ":streamGenerateContent">>
    ELSE <<"/chat/completions">>

\* cli.js 1760: baseUrl.replace(/\/$/, '')
StripSlash(baseUrl) ==
    IF baseUrl # <<>> /\ baseUrl[Len(baseUrl)] = "/"
    THEN SubSeq(baseUrl, 1, Len(baseUrl) - 1)
    ELSE baseUrl

\* cli.js 1761
Url(model) == StripSlash(model.providerConfig.baseUrl) \o Endpoint(model)

\* object[key] = value and delete object[key], on an object as a function
\* of its keys.
With(object, key, value) ==
    [k \in DOMAIN object \cup {key} |->
        IF k = key THEN value ELSE object[k]]
Without(object, key) == [k \in DOMAIN object \ {key} |-> object[k]]

\* cli.js 1765-1777
Headers(model) ==
    LET apiKey == model.providerConfig.apiKey
        headers == [h \in {"Content-Type", "Authorization"} |->
                      IF h = "Content-Type" THEN <<"application/json">>
                      ELSE <<"Bearer ", apiKey>>]
    IN IF model.providerType = "anthropic"
       THEN With(With(headers, "x-api-key", <<apiKey>>),
                 "anthropic-version", <<"2023-06-01">>)
       ELSE IF model.providerType = "google"
       THEN With(Without(headers, "Authorization"),
                 "x-goog-api-key", <<apiKey>>)
       ELSE headers

\* cli.js 1779-1802: the object JSON.stringify is given, as a function of
\* its top-level keys.
RequestBody(model) ==
    LET body == [k \in {"model", "messages", "max_tokens", "temperature",
                        "stream"} |->
                   IF k = "model" THEN <<ActualModelId(model)>>
                   ELSE IF k = "messages"
                   THEN <<"role", "user", "content", "testPrompt">>
                   ELSE IF k = "max_tokens" THEN <<"500">>
                   ELSE IF k = "temperature" THEN <<"0.7">>
                   ELSE <<"true">>]
    IN IF model.providerType = "anthropic"
       THEN With(With(body, "max_tokens", <<"500">>), "stream", <<"true">>)
       ELSE IF model.providerType = "google"
       THEN Without(Without(Without(
                With(With(body, "contents", <<"parts", "text", "testPrompt">>),
                     "generationConfig",
                     <<"maxOutputTokens", "500", "temperature", "0.7">>),
                "messages"), "max_tokens"), "stream")
       ELSE body

\* cli.js 1806-1810: the arguments of fetch.
FetchArguments(model) ==
    [url |-> Url(model), method |-> "POST", headers |-> Headers(model),
     body |-> RequestBody(model)]

\* Only the API key is checked.
ApiKeyErrorOnly(model) ==
    IF model.providerConfig.apiKey = ""
    THEN <<"Missing API key for provider", model.providerName>>
    ELSE <<>>

\* cli.js 1728-1735: the message of the error the configuration check
\* throws, <<>> when it throws none.
ConfigurationError(model) ==
    IF model.providerConfig.apiKey = ""
    THEN <<"Missing API key for provider", model.providerName>>
    ELSE IF model.providerConfig.baseUrl = <<>>
    THEN <<"Missing base URL for provider", model.providerName>>
    ELSE <<>>

\* ---------------------------------------------------------- the display
\* cli.js 933: (a, b) => a.totalTime - b.totalTime
ByTotalTime(a, b) == a.totalTime - b.totalTime

\* Ascending: (a, b) => a.tokensPerSecond - b.tokensPerSecond
ByTokensPerSecondAscending(a, b) ==
    a.tokensPerSecond.num * b.tokensPerSecond.den
        - b.tokensPerSecond.num * a.tokensPerSecond.den

\* cli.js 887 and 965: (a, b) => b.tokensPerSecond - a.tokensPerSecond, the
\* difference of two fractions with positive denominators, by its sign.
ByTokensPerSecond(a, b) ==
    b.tokensPerSecond.num * a.tokensPerSecond.den
        - a.tokensPerSecond.num * b.tokensPerSecond.den

\* cli.js 933: [...array].sort(compare), compare being the function of two
\* elements of the array. Array.prototype.sort is stable: an element goes
\* before the first one compare puts after it.
Sort(array, compare) ==
    LET RECURSIVE Sorted(_)
        Sorted(n) ==
            IF n = 0 THEN <<>>
            ELSE LET prev == Sorted(n - 1)
                     after == {j \in DOMAIN prev :
                                 compare[prev[j], array[n]] > 0}
                     k == IF after = {} THEN Len(prev)
                          ELSE (CHOOSE j \in after :
                                    \A i \in after : j <= i) - 1
                 IN SubSeq(prev, 1, k) \o <<array[n]>>
                        \o SubSeq(prev, k + 1, Len(prev))
    IN Sorted(Len(array))

\* Every result taken as a successful one.
IsResult(result) == TRUE

\* cli.js 850 and benchmark-rest.js 257: r => r.success
IsSuccess(result) == result.success
IsFailure(result) == ~result.success

\* cli.js 840-1006: what displayColorfulResults shows: nothing but a
\* message when no result is successful, else the table, the two rankings
\* (the rank of an entry is its index) and the failed results.
DisplayColorfulResults(results) ==
    LET successfulResults == SelectSeq(results, IsSuccess)
        elements == {successfulResults[i] : i \in DOMAIN successfulResults}
        byTotalTime == [a \in elements, b \in elements |-> ByTotalTime(a, b)]
        byTokensPerSecond ==
            [a \in elements, b \in elements |-> ByTokensPerSecond(a, b)]
    IN
    IF successfulResults = <<>>
    THEN [successfulResults |-> <<>>, sortedResults |-> <<>>,
          timeSortedResults |-> <<>>, tpsSortedResults |-> <<>>,
          failedResults |-> <<>>]
    ELSE [successfulResults |-> successfulResults,
          sortedResults |-> Sort(successfulResults, byTokensPerSecond),
          timeSortedResults |-> Sort(successfulResults, byTotalTime),
          tpsSortedResults |-> Sort(successfulResults, byTokensPerSecond),
          failedResults |-> SelectSeq(results, IsFailure)]

\* ------------------------------------------- the summary of benchmark-rest
\* benchmark-rest.js 149 and 155: Math.round(tokensPerSecond * 100) / 100 of
\* totalTokens / duration (0 when duration is 0), in hundredths.
RoundedTokensPerSecond(totalTokens, duration) ==
    IF duration > 0
    THEN (200 * totalTokens + duration) \div (2 * duration)
    ELSE 0

\* benchmark-rest.js 151-158: the result of a benchmark whose call returned
\* after duration seconds.
BenchmarkResult(provider, model, totalTokens, duration) ==
    [provider |-> provider, model |-> model, totalTokens |-> totalTokens,
     tokensPerSecond |-> RoundedTokensPerSecond(totalTokens, duration),
     duration |-> duration, success |-> TRUE, error |-> <<>>]

\* benchmark-rest.js 159-169: the result of a benchmark whose call threw.
BenchmarkFailure(provider, model, message) ==
    [provider |-> provider, model |-> model, totalTokens |-> 0,
     tokensPerSecond |-> 0, duration |-> 0, success |-> FALSE,
     error |-> message]

\* benchmark-rest.js 221: results.sort((a, b) => b.tokensPerSecond -
\* a.tokensPerSecond), which sorts the array itself, failed results included.
DisplayResultsTable(results) ==
    LET elements == {results[i] : i \in DOMAIN results} IN
    Sort(results, [a \in elements, b \in elements |->
                     b.tokensPerSecond - a.tokensPerSecond])

\* The reduce with >=: of equal entries the last one is kept.
FastestOfLast(successful) ==
    LET RECURSIVE Reduce(_)
        Reduce(n) ==
            IF n = 1 THEN successful[1]
            ELSE LET max == Reduce(n - 1) IN
                 IF successful[n].tokensPerSecond >= max.tokensPerSecond
                 THEN successful[n] ELSE max
    IN Reduce(Len(successful))

\* benchmark-rest.js 267: successful.reduce((max, r) => r.tokensPerSecond >
\* max.tokensPerSecond ? r : max), successful not being empty.
Fastest(successful) ==
    LET RECURSIVE Reduce(_)
        Reduce(n) ==
            IF n = 1 THEN successful[1]
            ELSE LET max == Reduce(n - 1) IN
                 IF successful[n].tokensPerSecond > max.tokensPerSecond
                 THEN successful[n] ELSE max
    IN Reduce(Len(successful))

\* benchmark-rest.js 268: the same with <.
Slowest(successful) ==
    LET RECURSIVE Reduce(_)
        Reduce(n) ==
            IF n = 1 THEN successful[1]
            ELSE LET min == Reduce(n - 1) IN
                 IF successful[n].tokensPerSecond < min.tokensPerSecond
                 THEN successful[n] ELSE min
    IN Reduce(Len(successful))

\* benchmark-rest.js 266: the sum of tokensPerSecond divided by
\* successful.length, kept as a fraction.
AvgTps(successful) ==
    LET RECURSIVE Sum(_)
        Sum(n) == IF n = 0 THEN 0
                  ELSE Sum(n - 1) + successful[n].tokensPerSecond
    IN [num |-> Sum(Len(successful)), den |-> Len(successful)]

\* benchmark-rest.js 256-281: what displaySummary prints: the counts, the
\* aggregates when a result is successful, and the failed results.
DisplaySummary(results) ==
    LET successful == SelectSeq(results, IsSuccess)
        failed == SelectSeq(results, IsFailure)
    IN [total |-> Len(results),
        successful |-> Len(successful),
        failed |-> Len(failed),
        aggregates |->
            IF Len(successful) > 0
            THEN <<[avgTps |-> AvgTps(successful),
                    fastest |-> Fastest(successful),
                    slowest |-> Slowest(successful)]>>
            ELSE <<>>,
        failedBenchmarks |-> failed]

\* ------------------------------------------------------------ the state
VARIABLES
    models,         \* the argument of runRestApiBenchmark
    promptLength,   \* testPrompt.length
    now,            \* Date.now()
    batch,          \* runRestApiBenchmark: "scatter", "gather", "done",
                    \* "aborted", "displayed"
    req,            \* per model: the locals of its benchmarkSingleModelRest call
    response,       \* per model: the response of its fetch, <<>> before
    settled,        \* per model: the values its promise was resolved with
    results,        \* the array Promise.all returned, <<>> before
    rcvd,           \* history, per model: the chunks reader.read() returned
    sentinel,       \* history, per model: [DONE] has been decoded
    calls,          \* history, per model: the arguments of its fetch calls
                    \* and the number of its text and read calls
    thrown,         \* history, per model: the errors thrown in its call
    report,         \* what runRestApiBenchmark has shown of the results
    headless,       \* runHeadlessBenchmark: its arguments, its position, the
                    \* records it has printed and its exit status
    tracker,        \* benchmark-rest.js --all --track: the Tracker, the
                    \* signals of the process, the CSV file and the log
    recentModels,   \* ai-config.json: config.recentModels
    modelsDev,      \* models.dev: the cache file, the API and what
                    \* getAllProviders and refreshData have returned
    providers       \* the provider stores: auth.json, ai-benchmark-config.json
                    \* and the old configuration

\* The state of the programs other than the benchmark of a batch.
others == <<headless, tracker, recentModels, modelsDev, providers>>

vars == <<models, promptLength, now, batch, req, response, settled, results,
          rcvd, sentinel, calls, thrown, report, others>>

\* No headless run has been asked for.
NoHeadless == [pc |-> "none"]

\* No tracker has been constructed.
NoTracker == [pc |-> "none"]
\* No recent-models.json and no recentModels in ai-benchmark-config.json.
NoRecentModels == [cache |-> <<>>, config |-> <<>>, added |-> <<>>]
\* The module of the models.dev catalog has not been loaded.
NoModelsDev == [pc |-> "none"]
\* No provider store has been read.
NoProviders == [pc |-> "none"]

OthersIdle ==
    /\ headless = NoHeadless
    /\ tracker = NoTracker
    /\ recentModels = NoRecentModels
    /\ modelsDev = NoModelsDev
    /\ providers = NoProviders

Requests == DOMAIN models

Model(i, providerType, apiKey, baseUrl, id) ==
    [name |-> ToString(i), id |-> id, providerName |-> providerType,
     providerType |-> providerType,
     providerConfig |-> [apiKey |-> apiKey, baseUrl |-> baseUrl]]

ModelsOf(n, baseUrls, ids) ==
    [1..n -> [providerType : ProviderTypes, apiKey : ApiKeys,
              baseUrl : baseUrls, id : ids]]

NoReport == [individual |-> <<>>, display |-> <<>>]

InitOf(n, promptLengths, baseUrls, ids) ==
    /\ \E ms \in ModelsOf(n, baseUrls, ids) :
         models = [i \in 1..n |->
                     Model(i, ms[i].providerType, ms[i].apiKey, ms[i].baseUrl,
                           ms[i].id)]
    /\ promptLength \in promptLengths
    /\ now = 1
    /\ batch = "scatter"
    /\ req = [i \in 1..n |-> NoLocals]
    /\ response = [i \in 1..n |-> <<>>]
    /\ settled = [i \in 1..n |-> <<>>]
    /\ results = <<>>
    /\ rcvd = [i \in 1..n |-> <<>>]
    /\ sentinel = [i \in 1..n |-> FALSE]
    /\ calls = [i \in 1..n |-> [fetch |-> <<>>, text |-> 0, read |-> 0]]
    /\ thrown = [i \in 1..n |-> <<>>]
    /\ report = NoReport
    /\ OthersIdle


\* ---------------------------------------------------------- the actions
\* The promise of request r gets its value and the call goes on from where
\* it was.
SettleAndGoOn(r, outcome) ==
    /\ req' = req
    /\ settled' = [settled EXCEPT ![r] = settled[r] \o outcome.value]

\* The promise of request r settles: resolved with a value, or rejected.
Settle(r, outcome) ==
    /\ req' = [req EXCEPT ![r].pc = outcome.pc]
    /\ settled' = [settled EXCEPT ![r] = settled[r] \o outcome.value]

\* An error thrown outside every try block: the promise of the call is
\* rejected.
ThrowUncaught(r, position, message) ==
    /\ Settle(r, [pc |-> "rejected", value |-> <<>>])
    /\ thrown' = [thrown EXCEPT ![r] =
                     Append(@, [position |-> position, message |-> message])]

\* An error with error.message = message is thrown at a position of request
\* r's call.
Throw(r, position, message) ==
    /\ Settle(r, Catch(position, models[r], message))
    /\ thrown' = [thrown EXCEPT ![r] =
                     Append(@, [position |-> position, message |-> message])]

\* The accumulators declared once, outside the function: every call reads
\* and writes those of the first.
SharedClosure(r) == 1

\* Each call of benchmarkSingleModelRest declares its own streamedText,
\* buffer, inputTokens and outputTokens (cli.js 1744-1747, 1820-1825): the
\* continuation of request r reads the locals of call r.
Closure(r) == r

\* cli.js 1724-1810: benchmarkSingleModelRest(models[r]) runs up to its first
\* await.
\* cli.js 1993-1996: the map callback starts request r. Models are started in
\* array order.
Call(r) ==
    LET model == models[r] IN
    IF ConfigurationError(model) # <<>>
    THEN /\ Throw(r, "config", ConfigurationError(model))
         /\ UNCHANGED calls
    ELSE /\ req' = [req EXCEPT ![r] =
                       Locals("fetch", now, 0, TRUE, <<>>,
                              Acc(<<>>, 0, 0, <<>>))]
         /\ calls' = [calls EXCEPT ![r].fetch =
                         Append(@, FetchArguments(model))]
         /\ UNCHANGED <<settled, thrown>>

Start(r) ==
    /\ batch = "scatter"
    /\ req[r].pc = "pending"
    /\ \A q \in Requests : q < r => req[q].pc # "pending"
    /\ Call(r)
    /\ UNCHANGED <<others, report, models, promptLength, now, batch, response, results,
                   rcvd, sentinel>>

\* The first call awaited as soon as it is made: await inside the loop.
FirstStarted(requests) == requests[1].pc # "pending"

\* cli.js 1993-1996: models.map has called benchmarkSingleModelRest for
\* every model.
AllStarted(requests) == \A r \in DOMAIN requests : requests[r].pc # "pending"

\* cli.js 1998: every promise is created; runRestApiBenchmark awaits
\* Promise.all and the event loop starts to run the continuations.
Gather ==
    /\ batch = "scatter"
    /\ AllStarted(req)
    /\ batch' = "gather"
    /\ UNCHANGED <<others, report, models, promptLength, now, req, response, settled,
                   results, rcvd, sentinel, calls, thrown>>

\* cli.js 1806: fetch rejects (DNS, connection, TLS).
FetchFails(r) ==
    /\ batch = "gather"
    /\ req[r].pc = "fetch"
    /\ Throw(r, "fetch", <<"fetch failed">>)
    /\ UNCHANGED <<others, report, models, promptLength, now, batch, response, results,
                   rcvd, sentinel, calls>>

\* cli.js 1806-1820: fetch resolves with a response. A status outside 2xx
\* awaits response.text(); a 2xx status gets the reader and awaits the
\* first reader.read().
FetchResponds(r) ==
    /\ batch = "gather"
    /\ req[r].pc = "fetch"
    /\ \E status \in Statuses :
         /\ response' = [response EXCEPT ![r] =
                <<[status |-> status, statusText |-> StatusText(status),
                   ok |-> (status = "200"), body |-> Body(status)]>>]
         /\ IF status = "200"
            THEN /\ req' = [req EXCEPT ![r].pc = "read"]
                 /\ calls' = [calls EXCEPT ![r].read = @ + 1]
            ELSE /\ req' = [req EXCEPT ![r].pc = "text"]
                 /\ calls' = [calls EXCEPT ![r].text = @ + 1]
    /\ UNCHANGED <<others, report, models, promptLength, now, batch, settled, results, rcvd,
                   sentinel, thrown>>

\* cli.js 1816: the message of the error thrown for a status outside 2xx;
\* errorText is the text response.text() resolved with.
ErrorMessage(resp, errorText) ==
    <<"API request failed:", resp.status, resp.statusText>>

\* cli.js 1815-1816: response.text() resolves; the error is thrown.
TextReturns(r) ==
    /\ batch = "gather"
    /\ req[r].pc = "text"
    /\ Throw(r, "status", ErrorMessage(response[r][1], response[r][1].body))
    /\ UNCHANGED <<others, report, models, promptLength, now, batch, response, results,
                   rcvd, sentinel, calls>>

\* cli.js 1815: response.text() rejects (the connection drops).
TextFails(r) ==
    /\ batch = "gather"
    /\ req[r].pc = "text"
    /\ Throw(r, "text", <<"terminated">>)
    /\ UNCHANGED <<others, report, models, promptLength, now, batch, response, results,
                   rcvd, sentinel, calls>>

\* cli.js 1828-1931: reader.read() resolves with a chunk; the loop body
\* runs and the next reader.read() is awaited.
ReadChunk(r, feed) ==
    /\ batch = "gather"
    /\ req[r].pc = "read"
    /\ Len(rcvd[r]) < MaxChunks
    /\ \E chunk \in feed[models[r].providerType] :
         LET mine == [req[r] EXCEPT !.buffer = req[Closure(r)].buffer,
                                    !.acc = req[Closure(r)].acc]
             o == OnChunk(models[r].providerType, mine, chunk, now)
         IN /\ req' = [req EXCEPT ![r] = [@ EXCEPT
                          !.firstTokenTime = o.st.firstTokenTime,
                          !.isFirstChunk = o.st.isFirstChunk],
                                  ![Closure(r)] = [@ EXCEPT
                          !.buffer = o.st.buffer, !.acc = o.st.acc]]
            /\ sentinel' = [sentinel EXCEPT ![r] = @ \/ o.sentinel]
            /\ rcvd' = [rcvd EXCEPT ![r] = Append(@, chunk)]
    /\ calls' = [calls EXCEPT ![r].read = @ + 1]
    /\ UNCHANGED <<others, report, models, promptLength, now, batch, response, settled,
                   results, thrown>>

\* cli.js 1828-1829 and 1933-1957: reader.read() resolves with done.
ReadDone(r) ==
    /\ batch = "gather"
    /\ req[r].pc = "read"
    /\ LET mine == [req[r] EXCEPT !.buffer = req[Closure(r)].buffer,
                                  !.acc = req[Closure(r)].acc]
       IN Settle(r, [pc |-> "resolved",
                     value |-> <<Finalize(models[r], mine, now,
                                          promptLength)>>])
    /\ UNCHANGED <<others, report, models, promptLength, now, batch, response, results,
                   rcvd, sentinel, calls, thrown>>

\* cli.js 1828: reader.read() rejects (the connection drops mid-stream).
ReadFails(r) ==
    /\ batch = "gather"
    /\ req[r].pc = "read"
    /\ Throw(r, "read", <<"terminated">>)
    /\ UNCHANGED <<others, report, models, promptLength, now, batch, response, results,
                   rcvd, sentinel, calls>>

\* The values of the successful requests only.
PromiseAllSuccessful(values) ==
    LET RECURSIVE Keep(_)
        Keep(i) == IF i > Len(values) THEN <<>>
                   ELSE (IF values[i][1].success THEN <<values[i][1]>>
                         ELSE <<>>) \o Keep(i + 1)
    IN Keep(1)

\* cli.js 1998: what Promise.all resolves with: the values of the promises,
\* in the order of the promises.
PromiseAll(values) == [r \in DOMAIN values |-> values[r][1]]

\* cli.js 1998: Promise.all settles: rejected as soon as one promise is
\* rejected, resolved once all are resolved.
Join ==
    /\ batch = "gather"
    /\ \/ \E r \in Requests : req[r].pc = "rejected"
       \/ \A r \in Requests : req[r].pc = "resolved"
    /\ IF \E r \in Requests : req[r].pc = "rejected"
       THEN batch' = "aborted" /\ UNCHANGED results
       ELSE batch' = "done" /\ results' = PromiseAll(settled)
    /\ UNCHANGED <<others, report, models, promptLength, now, req, response, settled, rcvd,
                   sentinel, calls, thrown>>

\* cli.js 2000-2015: the results are printed one by one and handed to
\* displayColorfulResults.
Display ==
    /\ batch = "done"
    /\ batch' = "displayed"
    /\ report' = [individual |-> results,
                  display |-> <<DisplayColorfulResults(results)>>]
    /\ UNCHANGED <<others, models, promptLength, now, req, response, settled,
                   results, rcvd, sentinel, calls, thrown>>

\* The clock advances (it never goes back).
Tick ==
    /\ now < MaxTime
    /\ now' = now + 1
    /\ UNCHANGED <<others, report, models, promptLength, batch, req, response, settled,
                   results, rcvd, sentinel, calls, thrown>>

\* The steps of a batch, but for the arrival of a chunk.
Control ==
    \/ \E r \in Requests : Start(r)
    \/ Gather
    \/ \E r \in Requests : FetchFails(r)
    \/ \E r \in Requests : FetchResponds(r)
    \/ \E r \in Requests : TextReturns(r)
    \/ \E r \in Requests : TextFails(r)
    \/ \E r \in Requests : ReadDone(r)
    \/ \E r \in Requests : ReadFails(r)
    \/ Join
    \/ Display

\* A batch of NumModels models; the servers send whole lines.
Init == InitOf(NumModels, {MaxPromptLen}, BaseUrls, NoIds)
Next == Control \/ \E r \in Requests : ReadChunk(r, BatchFeed)
Spec == Init /\ [][Next]_vars

\* The batch under the scheduling of the event loop and of a network that
\* answers: a continuation that is ready runs (the map callback, the await
\* of Promise.all, the display), every fetch and every response.text()
\* settles, and every body closes or fails.
Fairness ==
    /\ WF_vars(Gather) /\ WF_vars(Join) /\ WF_vars(Display)
    /\ \A r \in 1..NumModels :
         /\ WF_vars(Start(r))
         /\ WF_vars(FetchFails(r) \/ FetchResponds(r))
         /\ WF_vars(TextReturns(r) \/ TextFails(r))
         /\ WF_vars(ReadDone(r) \/ ReadFails(r))
\* A batch of NumModels models of one OpenAI-compatible provider, with or
\* without its key.
InitFair ==
    /\ \E apiKey \in ApiKeys :
         models = [i \in 1..NumModels |->
                     Model(i, "openai-compatible", apiKey,
                           <<"https://api.example/v1">>, <<>>)]
    /\ promptLength = MaxPromptLen
    /\ now = 1
    /\ batch = "scatter"
    /\ req = [i \in 1..NumModels |-> NoLocals]
    /\ response = [i \in 1..NumModels |-> <<>>]
    /\ settled = [i \in 1..NumModels |-> <<>>]
    /\ results = <<>>
    /\ rcvd = [i \in 1..NumModels |-> <<>>]
    /\ sentinel = [i \in 1..NumModels |-> FALSE]
    /\ calls = [i \in 1..NumModels |-> [fetch |-> <<>>, text |-> 0, read |-> 0]]
    /\ thrown = [i \in 1..NumModels |-> <<>>]
    /\ report = NoReport
    /\ OthersIdle
SpecFair == InitFair /\ [][Next]_vars /\ Fairness

\* One request under an advancing clock.
InitTimed == InitOf(1, 0..MaxPromptLen, SlashUrls, Ids)
NextTimed == Control \/ Tick \/ \E r \in Requests : ReadChunk(r, TimedFeed)
SpecTimed == InitTimed /\ [][NextTimed]_vars

\* One request against a server that may send any chunk.
InitDecode == InitOf(1, 0..MaxPromptLen, SlashUrls, Ids)
NextDecode == Control \/ \E r \in Requests : ReadChunk(r, AnyFeed)
SpecDecode == InitDecode /\ [][NextDecode]_vars

\* cli.js 1827-1931: the locals of a call after the while loop has read the
\* chunks, one after the other, the first when the clock showed 1.
RECURSIVE Alone(_, _, _)
Alone(providerType, chunks, st) ==
    IF chunks = <<>> THEN st
    ELSE Alone(providerType, Tail(chunks),
               OnChunk(providerType, st, Head(chunks), 1).st)

\* The streams the servers of a finished batch have sent.
RankStreams ==
    {<<>>,
     <<<<Whole(Delta("data: ", "chunk", <<"b", "c">>))>>>>,
     <<<<Whole(Usage("data: ", "chunk", <<14>>, <<50>>))>>>>}

\* How a request of a finished batch has ended: its fetch failed
\* (end = 0), or its stream was read and closed when the clock showed end.
RankOutcomes ==
    {[stream |-> <<>>, end |-> 0]} \cup [stream : RankStreams, end : 1..MaxTime]

\* The state in which Promise.all has returned the results of MaxResults
\* requests, each started when the clock showed 1.
InitRank ==
    /\ models = [i \in 1..MaxResults |->
                   Model(i, "openai-compatible", "sk-key",
                         <<"https://api.example/v1">>, <<>>)]
    /\ promptLength = MaxPromptLen
    /\ now = MaxTime
    /\ batch = "done"
    /\ \E outcome \in [1..MaxResults -> RankOutcomes] :
         LET started == Locals("read", 1, 0, TRUE, <<>>, NoLocals.acc)
             read(i) == Alone(models[i].providerType, outcome[i].stream,
                              started)
             failed(i) == outcome[i].end = 0
         IN /\ req = [i \in 1..MaxResults |->
                        [read(i) EXCEPT !.pc = "resolved"]]
            /\ response = [i \in 1..MaxResults |->
                   IF failed(i) THEN <<>>
                   ELSE <<[status |-> "200", statusText |-> StatusText("200"),
                           ok |-> TRUE, body |-> Body("200")]>>]
            /\ settled = [i \in 1..MaxResults |->
                   IF failed(i) THEN <<Failed(models[i], <<"fetch failed">>)>>
                   ELSE <<Finalize(models[i], read(i), outcome[i].end,
                                   promptLength)>>]
            /\ rcvd = [i \in 1..MaxResults |-> outcome[i].stream]
            /\ calls = [i \in 1..MaxResults |->
                   [fetch |-> <<FetchArguments(models[i])>>, text |-> 0,
                    read |-> IF failed(i) THEN 0
                             ELSE Len(outcome[i].stream) + 1]]
            /\ thrown = [i \in 1..MaxResults |->
                   IF failed(i)
                   THEN <<[position |-> "fetch",
                           message |-> <<"fetch failed">>]>>
                   ELSE <<>>]
    /\ results = PromiseAll(settled)
    /\ sentinel = [i \in 1..MaxResults |-> FALSE]
    /\ report = NoReport
    /\ OthersIdle

\* The results of a finished batch are shown.
NextRank == Display
SpecRank == InitRank /\ [][NextRank]_vars

\* How a benchmark of benchmark-rest.js has ended.
SummaryTokens == {3, 64}
SummaryOutcomes ==
    {[success |-> FALSE, totalTokens |-> 0, duration |-> 0]}
        \cup [success : {TRUE}, totalTokens : SummaryTokens,
              duration : 0..MaxTime]

\* benchmark-rest.js 185-186: runParallel has returned the results of
\* MaxResults benchmarks, in the order of the benchmarks.
InitSummary ==
    /\ models = <<>>
    /\ promptLength = MaxPromptLen
    /\ now = MaxTime
    /\ batch = "runAll"
    /\ req = <<>> /\ response = <<>> /\ settled = <<>> /\ rcvd = <<>>
    /\ sentinel = <<>> /\ calls = <<>> /\ thrown = <<>>
    /\ \E outcome \in [1..MaxResults -> SummaryOutcomes] :
         results = [i \in 1..MaxResults |->
             IF outcome[i].success
             THEN BenchmarkResult("openai", i, outcome[i].totalTokens,
                                  outcome[i].duration)
             ELSE BenchmarkFailure("openai", i, <<"HTTP 500">>)]
    /\ report = NoReport
    /\ OthersIdle

\* benchmark-rest.js 187-188: runAll shows the table, which sorts the array
\* of the results, and then the summary of the sorted array.
RunAll ==
    /\ batch = "runAll"
    /\ batch' = "summarized"
    /\ results' = DisplayResultsTable(results)
    /\ report' = [individual |-> results',
                  display |-> <<DisplaySummary(results')>>]
    /\ UNCHANGED <<others, models, promptLength, now, req, response, settled,
                   rcvd, sentinel, calls, thrown>>

\* The report of either program on a finished batch.
InitReport == InitRank \/ InitSummary
NextReport == Display \/ RunAll
SpecReport == InitReport /\ [][NextReport]_vars

\* ------------------------------------------------------- the headless run
\* cli.js 32-62 and 2175-2234: what the command line and the configuration
\* give a headless run. format: both sides of the ":" of --bench are there;
\* loads: loadConfig returns; provider, model: find() returns one; apiKey:
\* the value of --api-key; providerKey: provider.apiKey.
HeadlessArgs ==
    [format : BOOLEAN, loads : BOOLEAN, provider : BOOLEAN, model : BOOLEAN,
     apiKey : ApiKeys, providerKey : ApiKeys, useAiSdk : BOOLEAN,
     providerType : ProviderTypes, baseUrl : BaseUrls]

\* cli.js 2234: apiKey || provider.apiKey.
FinalApiKey(args) ==
    IF args.apiKey # "" THEN args.apiKey ELSE args.providerKey

\* cli.js 2178-2271: the message of the first check that ends the run with
\* process.exit(1) before benchmarkSingleModelRest is called, <<>> when
\* every check passes.
HeadlessError(args) ==
    IF ~args.format THEN <<"Invalid --bench format">>
    ELSE IF ~args.loads THEN <<"Error:", "config">>
    ELSE IF ~args.provider THEN <<"Provider not found">>
    ELSE IF ~args.model THEN <<"Model not found">>
    ELSE IF FinalApiKey(args) = "" THEN <<"No API key found">>
    ELSE IF args.useAiSdk THEN <<"AI SDK headless mode not yet implemented">>
    ELSE <<>>

\* cli.js 2276-2293: the record printed for a result.
JsonOutput(args, result) ==
    [method |-> IF args.useAiSdk THEN "ai-sdk" ELSE "rest-api",
     success |-> result.success,
     totalTime |-> result.totalTime,
     timeToFirstToken |-> result.timeToFirstToken,
     tokensPerSecond |-> result.tokensPerSecond,
     outputTokens |-> result.tokenCount,
     promptTokens |-> result.promptTokens,
     totalTokens |-> result.totalTokens,
     is_estimated |-> IF "usedEstimateForOutput" \in DOMAIN result
                      THEN result.usedEstimateForOutput
                               \/ result.usedEstimateForInput
                      ELSE FALSE,
     error |-> IF "error" \in DOMAIN result THEN result.error ELSE <<>>]

\* cli.js 2309-2325: main has been started with --bench. models[1] is the
\* modelConfig the run builds (2244-2255) once provider, model and key are
\* found.
InitHeadless ==
    /\ \E args \in HeadlessArgs :
         /\ headless = [pc |-> "start", args |-> args, benchmarks |-> 0,
                        stdout |-> <<>>, stderr |-> <<>>, exit |-> <<>>]
         /\ models = <<Model(1, args.providerType, FinalApiKey(args),
                             args.baseUrl, <<>>)>>
    /\ promptLength = MaxPromptLen
    /\ now = 1
    /\ batch = "headless"
    /\ req = <<NoLocals>>
    /\ response = << <<>> >>
    /\ settled = << <<>> >>
    /\ results = <<>>
    /\ rcvd = << <<>> >>
    /\ sentinel = <<FALSE>>
    /\ calls = <<[fetch |-> <<>>, text |-> 0, read |-> 0]>>
    /\ thrown = << <<>> >>
    /\ report = NoReport
    /\ tracker = NoTracker
    /\ recentModels = NoRecentModels
    /\ modelsDev = NoModelsDev
    /\ providers = NoProviders

\* cli.js 2175-2273: runHeadlessBenchmark up to its await of
\* benchmarkSingleModelRest, or to the process.exit(1) of a check.
RunHeadlessBenchmark ==
    /\ headless.pc = "start"
    /\ LET error == HeadlessError(headless.args) IN
       IF error # <<>>
       THEN /\ headless' = [headless EXCEPT !.pc = "exited",
                                            !.stderr = <<error>>,
                                            !.exit = <<1>>]
            /\ UNCHANGED <<batch, req, calls, settled, thrown>>
       ELSE /\ headless' = [headless EXCEPT !.pc = "await",
                                            !.benchmarks = @ + 1]
            /\ batch' = "gather"
            /\ Call(1)
    /\ UNCHANGED <<report, models, promptLength, now, response, results,
                   rcvd, sentinel, tracker, recentModels, modelsDev,
                   providers>>

\* cli.js 2273-2297: the await returns the result; the record is printed
\* and the process exits.
HeadlessOutput ==
    /\ headless.pc = "await"
    /\ req[1].pc = "resolved"
    /\ LET result == settled[1][1] IN
       headless' = [headless EXCEPT
                       !.pc = "exited",
                       !.stdout = Append(@, JsonOutput(headless.args, result)),
                       !.exit = <<IF result.success THEN 0 ELSE 1>>]
    /\ batch' = "exited"
    /\ UNCHANGED <<report, models, promptLength, now, req, response, settled,
                   results, rcvd, sentinel, calls, thrown, tracker,
                   recentModels, modelsDev, providers>>

NextHeadless ==
    \/ RunHeadlessBenchmark
    \/ HeadlessOutput
    \/ \E r \in Requests : FetchFails(r)
    \/ \E r \in Requests : FetchResponds(r)
    \/ \E r \in Requests : TextReturns(r)
    \/ \E r \in Requests : TextFails(r)
    \/ \E r \in Requests : ReadChunk(r, BatchFeed)
    \/ \E r \in Requests : ReadDone(r)
    \/ \E r \in Requests : ReadFails(r)
SpecHeadless == InitHeadless /\ [][NextHeadless]_vars

\* ------------------------------------------------------------ the tracker
\* The cycles a tracker is followed for.
MaxCycles == 3

\* benchmark-rest.js 199-210, 130-168: what runSilent resolves with, one
\* result per configured model, in the order of the configuration; a
\* benchmark never rejects.
CycleResults ==
    [1..NumModels ->
        {BenchmarkResult("openai", 1, 64, 1),
         BenchmarkFailure("openai", 1, <<"HTTP 500">>)}]

\* benchmark-rest.js 342-360: the lines appended to the CSV file for a
\* cycle: one per successful result, none for a failed one.
RECURSIVE CsvLines(_, _)
CsvLines(timestamp, cycle) ==
    IF cycle = <<>> THEN <<>>
    ELSE (IF Head(cycle).success
          THEN <<[timestamp |-> timestamp,
                  tokensPerSecond |-> Head(cycle).tokensPerSecond,
                  totalTokens |-> Head(cycle).totalTokens]>>
          ELSE <<>>) \o CsvLines(timestamp, Tail(cycle))

\* benchmark-rest.js 464-468 and 293-301: what the listeners of a signal do,
\* in the order they were registered: for SIGINT the listener of the module
\* (registered when the module is loaded) runs first and ends the process;
\* for SIGTERM the listener of the Tracker clears running.
OnSignal(t, signal) ==
    IF signal = "SIGINT"
    THEN [t EXCEPT !.pc = "exited",
                   !.log = Append(@, "Benchmark interrupted by user"),
                   !.exit = <<0>>]
    ELSE [t EXCEPT !.running = FALSE,
                   !.log = Append(@, "Stopping tracking...")]

\* benchmark-rest.js 453-455 and 285-290: main has constructed the Tracker:
\* running is true and the listeners are registered.
InitTracker ==
    /\ tracker = [pc |-> "constructed", running |-> TRUE, signals |-> <<>>,
                  started |-> 0, completed |-> 0, csv |-> <<>>,
                  log |-> <<>>, exit |-> <<>>]
    /\ models = <<>> /\ promptLength = MaxPromptLen /\ now = 1
    /\ batch = "track"
    /\ req = <<>> /\ response = <<>> /\ settled = <<>> /\ results = <<>>
    /\ rcvd = <<>> /\ sentinel = <<>> /\ calls = <<>> /\ thrown = <<>>
    /\ report = NoReport
    /\ headless = NoHeadless
    /\ recentModels = NoRecentModels
    /\ modelsDev = NoModelsDev
    /\ providers = NoProviders

\* What the steps of the tracker leave alone.
TrackerFrame ==
    UNCHANGED <<models, promptLength, now, batch, req, response, settled,
                results, rcvd, sentinel, calls, thrown, report, headless,
                recentModels, modelsDev, providers>>

\* benchmark-rest.js 328-334: runTrackingCycle up to its await of runSilent.
BeginCycle(t) ==
    [t EXCEPT !.pc = "cycle", !.started = @ + 1,
              !.log = Append(@, "Running benchmark cycle...")]

\* benchmark-rest.js 317-325: the while loop at its condition, and the end
\* of startTracking when running is false.
LoopOrStop(t) ==
    IF t.running THEN [t EXCEPT !.pc = "sleep"]
    ELSE [t EXCEPT !.pc = "stopped",
                   !.log = Append(@, "Tracking stopped by user")]

\* benchmark-rest.js 304-315: startTracking writes the header of the CSV
\* file and starts the first cycle.
StartTracking ==
    /\ tracker.pc = "constructed"
    /\ tracker' = BeginCycle(tracker)
    /\ TrackerFrame

\* benchmark-rest.js 334-337 and 317-325: runSilent resolves; the results
\* are written to the CSV file and summarized, and the loop goes on.
CycleEnds ==
    /\ tracker.pc = "cycle"
    /\ \E cycle \in CycleResults :
         tracker' = LoopOrStop(
             [tracker EXCEPT !.completed = @ + 1,
                             !.csv = @ \o CsvLines(tracker.started, cycle),
                             !.log = Append(@, "Completed")])
    /\ TrackerFrame

\* benchmark-rest.js 318-320: the sleep of a minute is over.
SleepEnds ==
    /\ tracker.pc = "sleep"
    /\ tracker.started < MaxCycles \/ ~tracker.running
    /\ tracker' = IF ~tracker.running
                  THEN [tracker EXCEPT
                           !.pc = "stopped",
                           !.log = Append(@, "Tracking stopped by user")]
                  ELSE BeginCycle(tracker)
    /\ TrackerFrame

\* The process receives a signal while the tracker awaits a cycle or the
\* end of a sleep. At most one signal of each kind is followed.
Signal ==
    /\ tracker.pc \in {"cycle", "sleep"}
    /\ \E signal \in {"SIGINT", "SIGTERM"} :
         /\ \A i \in DOMAIN tracker.signals : tracker.signals[i].signal # signal
         /\ tracker' = OnSignal(
                [tracker EXCEPT !.signals =
                    Append(@, [signal |-> signal, pc |-> tracker.pc,
                               started |-> tracker.started])],
                signal)
    /\ TrackerFrame

NextTracker == StartTracking \/ CycleEnds \/ SleepEnds \/ Signal
SpecTracker == InitTracker /\ [][NextTracker]_vars

\* ------------------------------------------------------ the recent models
\* ai-config.js 196: recentModels.slice(0, 5).
RecentLimit == 5

\* The modelIds of the models of the benchmarks: one more than the list
\* keeps.
ModelIds == 1..(RecentLimit + 1)

\* cli.js 1010-1022: the argument of addToRecentModels, the successful
\* models of a benchmark, in the order of the results; two of them may have
\* the same modelId.
RecentArguments ==
    {<<a>> : a \in ModelIds}
        \cup {<<a, a>> : a \in ModelIds}
        \cup {<<a, (a % (RecentLimit + 1)) + 1>> : a \in ModelIds}

\* An entry of the list.
Recent(modelId, timestamp) == [modelId |-> modelId, timestamp |-> timestamp]

\* The filter of addToRecentModels left out.
WithoutModelKeepingAll(recent, modelId) == recent

\* ai-config.js 183-185: recentModels.filter(recent => recent.modelId !==
\* model.modelId).
WithoutModel(recent, modelId) ==
    SelectSeq(recent, LAMBDA entry : entry.modelId # modelId)

\* ai-config.js 181-193: models.forEach: the entry of each model is taken
\* out of the list and a new one is put at its head.
RECURSIVE ForEachModel(_, _, _)
ForEachModel(recent, arguments, clock) ==
    IF arguments = <<>> THEN recent
    ELSE ForEachModel(
             <<Recent(Head(arguments), clock)>>
                 \o WithoutModel(recent, Head(arguments)),
             Tail(arguments), clock)

\* ai-config.js 196: slice(0, 5).
Slice(recent, count) ==
    IF Len(recent) <= count THEN recent ELSE SubSeq(recent, 1, count)

\* ai-config.js 163-202: what addToRecentModels writes to the cache file
\* and returns.
AddedToRecentModels(recent, arguments, clock) ==
    Slice(ForEachModel(recent, arguments, clock), RecentLimit)

\* The lists an earlier version of the program has left in
\* ai-benchmark-config.json: none, or a list kept the same way.
LegacyRecentModels ==
    {<<>>, <<Recent(RecentLimit + 1, 1), Recent(1, 1)>>}

\* The configuration holds what an earlier version left; no cache file.
InitRecent ==
    /\ \E legacy \in LegacyRecentModels :
         recentModels = [cache |-> <<>>, config |-> legacy, added |-> <<>>]
    /\ models = <<>> /\ promptLength = MaxPromptLen /\ now = 1
    /\ batch = "menu"
    /\ req = <<>> /\ response = <<>> /\ settled = <<>> /\ results = <<>>
    /\ rcvd = <<>> /\ sentinel = <<>> /\ calls = <<>> /\ thrown = <<>>
    /\ report = NoReport
    /\ headless = NoHeadless
    /\ tracker = NoTracker
    /\ modelsDev = NoModelsDev
    /\ providers = NoProviders

\* What the operations on the recent models leave alone.
RecentFrame ==
    UNCHANGED <<models, promptLength, now, batch, req, response, settled,
                results, rcvd, sentinel, calls, thrown, report, headless,
                tracker, modelsDev, providers>>

\* ai-config.js 163-205: addToRecentModels(models); added is the argument
\* of the call.
AddToRecentModels ==
    /\ \E arguments \in RecentArguments :
         recentModels' = [recentModels EXCEPT
             !.cache = AddedToRecentModels(recentModels.cache, arguments,
                                           now),
             !.added = arguments]
    /\ RecentFrame

\* ai-config.js 223-236: clearRecentModels removes the cache file.
ClearRecentModels ==
    /\ recentModels' = [recentModels EXCEPT !.cache = <<>>, !.added = <<>>]
    /\ RecentFrame

\* ai-config.js 238-259: cleanupRecentModelsFromConfig moves a list of the
\* configuration to the cache file.
CleanupRecentModelsFromConfig ==
    /\ recentModels' =
           IF recentModels.config # <<>>
           THEN [cache |-> recentModels.config, config |-> <<>>,
                 added |-> <<>>]
           ELSE recentModels
    /\ RecentFrame

NextRecent ==
    \/ AddToRecentModels
    \/ ClearRecentModels
    \/ CleanupRecentModelsFromConfig
    \/ Tick
SpecRecent == InitRecent /\ [][NextRecent]_vars

\* ---------------------------------------------------- the models.dev catalog
\* The calls of getAllProviders and refreshData that are followed.
MaxCalls == 2

\* unnamed/part_000 66: oneHour, the clock of the catalog counting hours.
OneHour == 1

\* A provider of the catalog: its id and the ids of its models, in order.
Provider(id, modelIds) == [id |-> id, models |-> modelIds]

\* unnamed/part_000 13-48: the providers baked in at build time.
FALLBACK_PROVIDERS ==
    <<Provider("openai", <<"gpt-4o", "gpt-4o-mini", "gpt-4-turbo",
                           "gpt-3.5-turbo">>),
      Provider("anthropic", <<"claude-3-5-sonnet-20241022",
                              "claude-3-5-haiku-20241022",
                              "claude-3-opus-20240229">>),
      Provider("openrouter", <<"anthropic/claude-3.5-sonnet",
                               "openai/gpt-4o", "openai/gpt-4o-mini">>)>>

\* unnamed/part_000 120-168: what loadCustomVerifiedProviders returns for
\* the custom-verified-providers.json at hand: no provider, or one.
CustomVerifiedProviders == {<<>>, <<Provider("zai", <<"glm-4.6">>)>>}

\* unnamed/part_000 171-204: what loadExtraModels returns, a map from
\* provider ids to models: empty, or one model more for openai.
ExtraModels ==
    {[id \in {} |-> <<>>], [id \in {"openai"} |-> <<"gpt-5">>]}

\* unnamed/part_000 105-112: the providers of the data models.dev serves: an
\* object without providers, or a catalog.
ApiData ==
    {<<>>, <<Provider("openai", <<"gpt-4o">>),
             Provider("google", <<"gemini-pro">>)>>}

\* A cache that is never taken to be expired.
IsCacheExpiredNever(cacheData, clock) == FALSE

\* unnamed/part_000 62-68: isCacheExpired.
IsCacheExpired(cacheData, clock) ==
    IF cacheData.timestamp = 0 THEN TRUE
    ELSE clock - cacheData.timestamp > OneHour

\* unnamed/part_000 71-88: loadCache: <<>> for null.
LoadCache(cache, clock) ==
    IF cache # <<>> /\ ~IsCacheExpired(cache[1], clock) THEN cache ELSE <<>>

\* unnamed/part_000 91-102: the file saveCache writes.
SaveCache(providerList, clock) ==
    <<[providers |-> providerList, timestamp |-> clock]>>

\* unnamed/part_000 285-289 and 228-230: models.push(...extraModels[id])
\* for a provider that has extra models.
WithExtraModels(provider, extraModels) ==
    IF provider.id \in DOMAIN extraModels
    THEN [provider EXCEPT !.models = @ \o extraModels[provider.id]]
    ELSE provider

\* unnamed/part_000 207-252: transformModelsDevData(apiData); fallback is
\* FALLBACK_PROVIDERS as it is at the call.
TransformModelsDevData(apiData, customProviders, extraModels, fallback) ==
    LET listed == customProviders
                      \o [i \in DOMAIN apiData |->
                              WithExtraModels(apiData[i], extraModels)]
    IN IF listed = <<>> THEN fallback ELSE listed

\* unnamed/part_000 260-266: the custom verified providers whose id the
\* list does not have are appended to it.
WithMissingCustomProviders(providerList, customProviders) ==
    providerList
        \o SelectSeq(customProviders,
               LAMBDA p : \A i \in DOMAIN providerList :
                              providerList[i].id # p.id)

\* unnamed/part_000 280-289 and 331-339: the spread copies the array, not
\* its providers: the extra models are pushed onto the models of the
\* providers of FALLBACK_PROVIDERS themselves.
FallbackWithExtraModels(fallback, extraModels) ==
    [i \in DOMAIN fallback |-> WithExtraModels(fallback[i], extraModels)]

\* The module is loaded: the configuration files, the data models.dev
\* serves and whether it answers; no cache file, or the one an earlier
\* run has saved at hour 1.
InitModelsDev ==
    /\ \E customProviders \in CustomVerifiedProviders,
          extraModels \in ExtraModels, apiData \in ApiData,
          api \in {"up", "down"}, cached \in BOOLEAN :
         modelsDev =
             [pc |-> "loaded",
              customProviders |-> customProviders,
              extraModels |-> extraModels,
              apiData |-> apiData,
              api |-> api,
              cache |-> IF cached
                        THEN SaveCache(TransformModelsDevData(apiData,
                                 customProviders, extraModels,
                                 FALLBACK_PROVIDERS), 1)
                        ELSE <<>>,
              fallback |-> FALLBACK_PROVIDERS,
              returned |-> <<>>]
    /\ models = <<>> /\ promptLength = MaxPromptLen /\ now = 1
    /\ batch = "menu"
    /\ req = <<>> /\ response = <<>> /\ settled = <<>> /\ results = <<>>
    /\ rcvd = <<>> /\ sentinel = <<>> /\ calls = <<>> /\ thrown = <<>>
    /\ report = NoReport
    /\ headless = NoHeadless
    /\ tracker = NoTracker
    /\ recentModels = NoRecentModels
    /\ providers = NoProviders

\* What the functions of the catalog leave alone.
ModelsDevFrame ==
    UNCHANGED <<models, promptLength, now, batch, req, response, settled,
                results, rcvd, sentinel, calls, thrown, report, headless,
                tracker, recentModels, providers>>

\* What a call has returned, with the state it was made in and the cache
\* file it has left.
Returned(md, op, source, providerList, clock, saved) ==
    [op |-> op, source |-> source, providers |-> providerList, at |-> clock,
     cache |-> md.cache, api |-> md.api, saved |-> saved]

\* unnamed/part_000 255-295: getAllProviders.
GetAllProviders ==
    /\ modelsDev.pc = "loaded"
    /\ Len(modelsDev.returned) < MaxCalls
    /\ LET md == modelsDev
           cachedData == LoadCache(md.cache, now)
           transformedData ==
               TransformModelsDevData(md.apiData, md.customProviders,
                                      md.extraModels, md.fallback)
           fallback == FallbackWithExtraModels(md.fallback, md.extraModels)
       IN modelsDev' =
           IF cachedData # <<>>
           THEN [md EXCEPT !.returned = Append(@,
                    Returned(md, "getAllProviders", "cache",
                        WithMissingCustomProviders(cachedData[1].providers,
                                                   md.customProviders),
                        now, md.cache))]
           ELSE IF md.api = "up"
           THEN [md EXCEPT !.cache = SaveCache(transformedData, now),
                           !.returned = Append(@,
                    Returned(md, "getAllProviders", "api", transformedData,
                             now, SaveCache(transformedData, now)))]
           ELSE [md EXCEPT !.fallback = fallback,
                           !.returned = Append(@,
                    Returned(md, "getAllProviders", "fallback",
                             fallback \o md.customProviders, now,
                             md.cache))]
    /\ ModelsDevFrame

\* unnamed/part_000 316-342: refreshData.
RefreshData ==
    /\ modelsDev.pc = "loaded"
    /\ Len(modelsDev.returned) < MaxCalls
    /\ LET md == modelsDev
           cachedData == LoadCache(md.cache, now)
           transformedData ==
               TransformModelsDevData(md.apiData, md.customProviders,
                                      md.extraModels, md.fallback)
           fallback == FallbackWithExtraModels(md.fallback, md.extraModels)
       IN modelsDev' =
           IF md.api = "up"
           THEN [md EXCEPT !.cache = SaveCache(transformedData, now),
                           !.returned = Append(@,
                    Returned(md, "refreshData", "api", transformedData,
                             now, SaveCache(transformedData, now)))]
           ELSE IF cachedData # <<>>
           THEN [md EXCEPT !.returned = Append(@,
                    Returned(md, "refreshData", "cache",
                             cachedData[1].providers, now, md.cache))]
           ELSE [md EXCEPT !.fallback = fallback,
                           !.returned = Append(@,
                    Returned(md, "refreshData", "fallback", fallback, now,
                             md.cache))]
    /\ ModelsDevFrame

\* unnamed/part_000 345-353: clearCache removes the cache file.
ClearCache ==
    /\ modelsDev.pc = "loaded"
    /\ modelsDev.cache # <<>>
    /\ modelsDev' = [modelsDev EXCEPT !.cache = <<>>]
    /\ ModelsDevFrame

\* models.dev stops answering, or answers again.
ApiChanges ==
    /\ modelsDev.pc = "loaded"
    /\ modelsDev' = [modelsDev EXCEPT
                        !.api = IF @ = "up" THEN "down" ELSE "up"]
    /\ ModelsDevFrame

NextModelsDev ==
    \/ GetAllProviders
    \/ RefreshData
    \/ ClearCache
    \/ ApiChanges
    \/ Tick
SpecModelsDev == InitModelsDev /\ [][NextModelsDev]_vars

\* ------------------------------------------------------ the provider stores
\* The custom providers ai-benchmark-config.json is followed up to.
MaxProviders == 3

ProviderIds == {"ollama", "zai"}

\* A provider of a store: its id, the store it is defined in and its name.
Defined(id, source, name) == [id |-> id, source |-> source, name |-> name]

\* The providers of a store, one for each id of ids, in the order of the
\* ids.
DefinedIn(ids, source) ==
    SelectSeq(<<Defined("ollama", source, "x"), Defined("zai", source, "x")>>,
              LAMBDA p : p.id \in ids)

\* opencode-integration.js 577-587: providerMap.set(provider.id, provider)
\* for a Map kept as the sequence of its values: a new key goes to the end,
\* a key that is there keeps its place and gets the value.
MapSet(map, provider) ==
    IF \E i \in DOMAIN map : map[i].id = provider.id
    THEN [i \in DOMAIN map |->
              IF map[i].id = provider.id THEN provider ELSE map[i]]
    ELSE Append(map, provider)

RECURSIVE SetAll(_, _)
SetAll(map, list) ==
    IF list = <<>> THEN map ELSE SetAll(MapSet(map, Head(list)), Tail(list))

\* opencode-integration.js 574-589: the values of the map after the custom
\* verified providers, the custom providers of the configuration and the
\* authenticated providers have been set, in this order.
AvailableProviders(authenticated, fromConfig, customVerified) ==
    SetAll(SetAll(SetAll(<<>>, customVerified), fromConfig), authenticated)

\* ai-config.js 79-94: config.customProviders after addCustomProvider.
AddedCustomProvider(customProviders, providerData) ==
    IF \E i \in DOMAIN customProviders :
           customProviders[i].id = providerData.id
    THEN LET existingIndex ==
                 CHOOSE i \in DOMAIN customProviders :
                     /\ customProviders[i].id = providerData.id
                     /\ \A j \in 1..(i - 1) :
                            customProviders[j].id # providerData.id
         IN [customProviders EXCEPT ![existingIndex] = providerData]
    ELSE Append(customProviders, providerData)

\* opencode-integration.js 634-662: config.customProviders after the custom
\* providers of the old configuration have been pushed.
MigratedCustomProviders(customProviders, oldCustomProviders) ==
    customProviders \o oldCustomProviders

\* auth.json, custom-verified-providers.json and the old configuration in
\* the working directory hold providers; no custom provider is defined yet.
InitProviders ==
    /\ \E authenticated \in SUBSET ProviderIds,
          customVerified \in SUBSET ProviderIds,
          old \in SUBSET ProviderIds :
         providers = [pc |-> "loaded",
                      authenticated |-> DefinedIn(authenticated, "auth"),
                      customVerified |-> DefinedIn(customVerified, "verified"),
                      oldConfig |-> DefinedIn(old, "old"),
                      customProviders |-> <<>>,
                      returned |-> <<>>]
    /\ models = <<>> /\ promptLength = MaxPromptLen /\ now = 1
    /\ batch = "menu"
    /\ req = <<>> /\ response = <<>> /\ settled = <<>> /\ results = <<>>
    /\ rcvd = <<>> /\ sentinel = <<>> /\ calls = <<>> /\ thrown = <<>>
    /\ report = NoReport
    /\ headless = NoHeadless
    /\ tracker = NoTracker
    /\ recentModels = NoRecentModels
    /\ modelsDev = NoModelsDev

\* What the functions of the provider stores leave alone.
ProvidersFrame ==
    UNCHANGED <<models, promptLength, now, batch, req, response, settled,
                results, rcvd, sentinel, calls, thrown, report, headless,
                tracker, recentModels, modelsDev>>

\* ai-config.js 78-95: addCustomProvider(providerData).
AddCustomProvider ==
    /\ providers.pc = "loaded"
    /\ \E id \in ProviderIds, name \in {"x", "y"} :
         LET added == AddedCustomProvider(providers.customProviders,
                                          Defined(id, "config", name))
         IN /\ Len(added) <= MaxProviders
            /\ providers' = [providers EXCEPT !.customProviders = added]
    /\ ProvidersFrame

\* ai-config.js 142-151: removeCustomProvider(providerId).
RemoveCustomProvider ==
    /\ providers.pc = "loaded"
    /\ \E id \in ProviderIds :
         providers' = [providers EXCEPT !.customProviders =
                          SelectSeq(@, LAMBDA p : p.id # id)]
    /\ ProvidersFrame

\* opencode-integration.js 605-677: migrateFromOldConfig(oldConfig), called
\* by loadConfig (cli.js 190-198) when the working directory has an
\* ai-benchmark-config.json, which loadConfig then renames (cli.js 207).
MigrateFromOldConfig ==
    /\ providers.pc = "loaded"
    /\ providers.oldConfig # <<>>
    /\ LET migrated == MigratedCustomProviders(providers.customProviders,
                                               providers.oldConfig)
       IN /\ Len(migrated) <= MaxProviders
          /\ providers' = [providers EXCEPT !.customProviders = migrated,
                                            !.oldConfig = <<>>]
    /\ ProvidersFrame

\* opencode-integration.js 549-590: getAllAvailableProviders().
GetAllAvailableProviders ==
    /\ providers.pc = "loaded"
    /\ providers' = [providers EXCEPT !.returned =
           <<[list |-> AvailableProviders(providers.authenticated,
                                          providers.customProviders,
                                          providers.customVerified),
              customProviders |-> providers.customProviders]>>]
    /\ ProvidersFrame

NextProviders ==
    \/ AddCustomProvider
    \/ RemoveCustomProvider
    \/ MigrateFromOldConfig
    \/ GetAllAvailableProviders
SpecProviders == InitProviders /\ [][NextProviders]_vars

\* ------------------------------------------------------------ the claims
Resolved(r) == req[r].pc = "resolved" /\ Len(settled[r]) = 1
Succeeded(r) == Resolved(r) /\ settled[r][1].success
FailedAt(r, position) ==
    /\ Resolved(r)
    /\ ~settled[r][1].success
    /\ thrown[r] # <<>> /\ thrown[r][1].position = position

\* C1: a finished batch of N requests has exactly N results, the i-th being
\* the one result of the i-th request, whatever the outcomes of the requests
\* were; no request ever has more than one result.
C1_OneResultPerRequest ==
    /\ \A r \in Requests : Len(settled[r]) <= 1
    /\ batch = "done" =>
         /\ DOMAIN results = Requests
         /\ \A r \in Requests :
              /\ settled[r] = <<results[r]>>
              /\ results[r].model = models[r].name
              /\ results[r].provider = models[r].providerName

C1_Witness ==
    /\ batch = "done"
    /\ Len(results) = NumModels
    /\ \E r, q \in Requests : results[r].success /\ ~results[q].success

\* Some line of the chunks is one JSON.parse rejects.
HasBadLine(chunks) ==
    \E i \in DOMAIN chunks : \E j \in DOMAIN chunks[i] :
        chunks[i][j].line.kind = "bad"

\* C2: an error thrown at any position of a request (configuration check,
\* fetch, status check, reading the error body, reading the stream) leaves
\* the request resolved with a failed result that carries the error's
\* message, a line that fails to parse leaves it running; no promise is
\* ever rejected and the join never aborts.
C2_ErrorsBecomeResults ==
    /\ batch # "aborted"
    /\ \A r \in Requests :
         /\ req[r].pc # "rejected"
         /\ thrown[r] # <<>> =>
              /\ Resolved(r)
              /\ ~settled[r][1].success
              /\ settled[r][1].error = thrown[r][1].message
         /\ (thrown[r] = <<>> /\ Resolved(r)) => settled[r][1].success

C2_Witness ==
    /\ batch = "done"
    /\ \E r, q \in Requests :
         /\ FailedAt(r, "read") /\ rcvd[r] # <<>>
         /\ Succeeded(q) /\ HasBadLine(rcvd[q])

\* The accumulators, the token counts, the flags and the success of request
\* r are those its own chunks and errors give.
OwnStream(r) ==
    LET alone == Alone(models[r].providerType, rcvd[r], NoLocals) IN
    /\ req[r].pc \in {"read", "resolved"} =>
         /\ req[r].acc = alone.acc
         /\ req[r].buffer = alone.buffer
    /\ Succeeded(r) =>
         LET own == Finalize(models[r], alone, 1, promptLength)
             res == settled[r][1]
         IN /\ res.tokenCount = own.tokenCount
            /\ res.promptTokens = own.promptTokens
            /\ res.usedEstimateForOutput = own.usedEstimateForOutput
            /\ res.usedEstimateForInput = own.usedEstimateForInput
    /\ Resolved(r) => (settled[r][1].success <=> thrown[r] = <<>>)

\* A step that changes one request changes no other.
OneAtATime ==
    \A r, q \in Requests :
        (r # q /\ <<req[r], settled[r], rcvd[r]>>' # <<req[r], settled[r], rcvd[r]>>)
            => <<req[q], settled[q], rcvd[q], sentinel[q], thrown[q]>>'
                 = <<req[q], settled[q], rcvd[q], sentinel[q], thrown[q]>>

\* C3: whatever the interleaving, the accumulators of a request are those
\* of a decoder that is fed the request's own chunks alone, its result is
\* the one computed from them, and a step of one request (its failure
\* included) changes nothing of any other request.
C3_Isolation == [](\A r \in Requests : OwnStream(r)) /\ [][OneAtATime]_vars

C3_Witness ==
    \E r, q \in Requests :
        /\ FailedAt(r, "read") /\ rcvd[r] # <<>>
        /\ req[q].pc = "read" /\ Len(rcvd[q]) = MaxChunks
        /\ req[q].acc.streamedText # <<>>

\* part is one of the pieces the message is put together from.
Contains(message, part) == \E i \in DOMAIN message : message[i] = part

\* C4 (as claimed): a request answered with a status outside 2xx ends failed
\* without reading the stream, and (the response body having been read) its
\* error contains the status code and the response body.
C4_ErrorHasStatusAndBody ==
    \A r \in Requests :
        (response[r] # <<>> /\ ~response[r][1].ok /\ Resolved(r)) =>
            /\ ~settled[r][1].success
            /\ calls[r].read = 0
            /\ thrown[r][1].position = "status" =>
                 /\ Contains(settled[r][1].error, response[r][1].status)
                 /\ Contains(settled[r][1].error, response[r][1].body)

\* C5: a successful result has 0 <= timeToFirstToken <= totalTime, and
\* timeToFirstToken = totalTime when the body ended before any chunk.
C5_TtftWithinTotal ==
    \A r \in Requests :
        Succeeded(r) =>
            LET res == settled[r][1] IN
            /\ 0 <= res.timeToFirstToken
            /\ res.timeToFirstToken <= res.totalTime
            /\ rcvd[r] = <<>> => res.timeToFirstToken = res.totalTime

C5_Witness ==
    \E r \in Requests :
        /\ Succeeded(r)
        /\ rcvd[r] # <<>>
        /\ 0 < settled[r][1].timeToFirstToken
        /\ settled[r][1].timeToFirstToken < settled[r][1].totalTime

\* C6: in every result tokensPerSecond * totalTime = totalTokens * 1000 when
\* totalTime > 0, and tokensPerSecond = 0 when totalTime = 0.
C6_TokensPerSecond ==
    \A r \in Requests :
        Resolved(r) =>
            LET res == settled[r][1] IN
            /\ res.tokensPerSecond.den > 0
            /\ res.totalTime > 0 =>
                 res.tokensPerSecond.num * res.totalTime
                   = res.totalTokens * 1000 * res.tokensPerSecond.den
            /\ res.totalTime = 0 => res.tokensPerSecond.num = 0

C6_Witness ==
    \E r \in Requests :
        /\ Succeeded(r)
        /\ settled[r][1].totalTime > 1
        /\ settled[r][1].totalTokens > 0

\* C7 (as claimed): in a successful result an estimated flag is true iff no
\* decoded usage field supplied that count, a count of 0 being a count.
C7_EstimatedIffNotReported ==
    \A r \in Requests :
        Succeeded(r) =>
            LET parsed == req[r].acc.parsed
                res == settled[r][1]
            IN /\ res.usedEstimateForOutput <=>
                    \A i \in DOMAIN parsed : parsed[i].outTok = <<>>
               /\ res.usedEstimateForInput <=>
                    \A i \in DOMAIN parsed : parsed[i].inTok = <<>>

\* The fields the decoder takes a count from: usage.prompt_tokens and
\* usage.completion_tokens, usageMetadata.promptTokenCount and
\* candidatesTokenCount, and for Anthropic the input_tokens of a
\* message_start that has usage or of a message_delta and the output_tokens
\* of a message_delta.
CarriesInput(providerType, chunk) ==
    providerType = "anthropic" =>
        \/ chunk.type = "message_start" /\ chunk.usage
        \/ chunk.type = "message_delta"
CarriesOutput(providerType, chunk) ==
    providerType = "anthropic" => chunk.type = "message_delta"

\* The last Anthropic message_start with usage (0 when there is none).
LastStart(providerType, parsed) ==
    LET starts == {i \in DOMAIN parsed :
                     /\ providerType = "anthropic"
                     /\ parsed[i].type = "message_start" /\ parsed[i].usage}
    IN IF starts = {} THEN 0
       ELSE CHOOSE i \in starts : \A j \in starts : j <= i

\* C7 (amended): an estimated flag is true iff no decoded usage field
\* supplied a non-zero count; for the input count of an Anthropic stream,
\* none from the last message_start with usage on.
C7_EstimatedIffNoNonZeroCount ==
    \A r \in Requests :
        Succeeded(r) =>
            LET parsed == req[r].acc.parsed
                type == models[r].providerType
                res == settled[r][1]
            IN /\ res.usedEstimateForOutput <=>
                    \A i \in DOMAIN parsed :
                        CarriesOutput(type, parsed[i])
                            => Num(parsed[i].outTok) = 0
               /\ res.usedEstimateForInput <=>
                    \A i \in DOMAIN parsed :
                        (i >= LastStart(type, parsed)
                         /\ CarriesInput(type, parsed[i]))
                            => Num(parsed[i].inTok) = 0

C7_Witness ==
    \E r \in Requests :
        /\ Succeeded(r)
        /\ \E i \in DOMAIN req[r].acc.parsed :
             req[r].acc.parsed[i].outTok = <<0>>
        /\ settled[r][1].usedEstimateForOutput
        /\ ~settled[r][1].usedEstimateForInput

\* n is length / 4 rounded to the nearest integer, a half upwards.
IsRoundQuarter(n, length) == 4 * n - 2 <= length /\ length <= 4 * n + 1

\* C8: each of the two counts of a successful result is the provider's
\* count when the decoder holds a non-zero one, which is then a count the
\* stream reported, and the flag is false; otherwise it is the length of
\* the prompt, or of the accumulated text, divided by 4 and rounded to the
\* nearest integer (4n - 2 <= length <= 4n + 1), and the flag is true.
C8_ProviderCountOrEstimate ==
    \A r \in Requests :
        Succeeded(r) =>
            LET acc == req[r].acc
                res == settled[r][1]
            IN /\ IF acc.outputTokens # 0
                  THEN /\ res.tokenCount = acc.outputTokens
                       /\ ~res.usedEstimateForOutput
                       /\ \E i \in DOMAIN acc.parsed :
                            acc.parsed[i].outTok = <<res.tokenCount>>
                  ELSE /\ IsRoundQuarter(res.tokenCount, Len(acc.streamedText))
                       /\ res.usedEstimateForOutput
               /\ IF acc.inputTokens # 0
                  THEN /\ res.promptTokens = acc.inputTokens
                       /\ ~res.usedEstimateForInput
                       /\ \E i \in DOMAIN acc.parsed :
                            acc.parsed[i].inTok = <<res.promptTokens>>
                  ELSE /\ IsRoundQuarter(res.promptTokens, promptLength)
                       /\ res.usedEstimateForInput

C8_Witness ==
    \E r \in Requests :
        /\ Succeeded(r)
        /\ Len(req[r].acc.streamedText) = 2
        /\ settled[r][1].usedEstimateForOutput
        /\ settled[r][1].tokenCount = 1
        /\ ~settled[r][1].usedEstimateForInput

\* C9: in every result totalTokens = promptTokens + tokenCount.
C9_TotalIsSum ==
    \A r \in Requests :
        Resolved(r) =>
            settled[r][1].totalTokens
                = settled[r][1].promptTokens + settled[r][1].tokenCount

C9_Witness ==
    \E r \in Requests :
        /\ Succeeded(r)
        /\ settled[r][1].promptTokens > 0
        /\ settled[r][1].tokenCount > 0
        /\ settled[r][1].usedEstimateForInput
        /\ ~settled[r][1].usedEstimateForOutput

\* C10 (as claimed): once [DONE] has been decoded, no later line, of the
\* same chunk or of a later one, changes the text or the token counts.
C10_NothingAfterSentinel ==
    [][\A r \in Requests :
         sentinel[r] =>
             /\ req[r].acc.streamedText' = req[r].acc.streamedText
             /\ req[r].acc.inputTokens' = req[r].acc.inputTokens
             /\ req[r].acc.outputTokens' = req[r].acc.outputTokens]_vars

\* C11 (as claimed): a request whose stream has delivered the sentinel is
\* finalized by that very step: it holds its successful result and awaits
\* no further reader.read(), whether or not the server closes the
\* connection.
C11_SentinelFinalizes ==
    \A r \in Requests : sentinel[r] => Succeeded(r)

\* The line is not a JSON object to the decoder of the provider type:
\* JSON.parse rejects the text it is given.
Malformed(providerType, line) ==
    IF providerType = "google"
    THEN ~(line.prefix = "" /\ line.kind = "json")
    ELSE line.kind = "bad"

\* The complete lines but the malformed ones.
WellFormed(providerType, lines) ==
    SelectSeq(lines, LAMBDA l : ~Malformed(providerType, TrimmedLine(l)))

\* The accumulators of a decoder that gets the chunks with the malformed
\* lines taken out.
RECURSIVE WithoutMalformed(_, _, _, _)
WithoutMalformed(providerType, chunks, buffer, acc) ==
    IF chunks = <<>> THEN acc
    ELSE LET split == SplitLines(buffer, Head(chunks), <<>>)
             dec == DecodeLines(providerType,
                                WellFormed(providerType, split.lines), acc)
         IN WithoutMalformed(providerType, Tail(chunks), split.buffer,
                             dec.acc)

\* C12: the text, the usage and the decoded objects a request holds are
\* those of a decoder that gets the same chunks with the malformed lines
\* taken out, the counts of its result are those computed from them, and a
\* request that has read a malformed line fails only if reader.read() does.
C12_MalformedSkipped ==
    \A r \in Requests :
        LET type == models[r].providerType
            ref == WithoutMalformed(type, rcvd[r], <<>>, NoLocals.acc)
        IN /\ req[r].pc \in {"read", "resolved"} => req[r].acc = ref
           /\ Succeeded(r) =>
                /\ settled[r][1].tokenCount
                     = FinalTokens(ref.outputTokens, Len(ref.streamedText))
                /\ settled[r][1].promptTokens
                     = FinalTokens(ref.inputTokens, promptLength)
           /\ (Resolved(r) /\ rcvd[r] # <<>>) =>
                \/ settled[r][1].success
                \/ thrown[r] # <<>> /\ thrown[r][1].position = "read"

C12_Witness ==
    \E r \in Requests :
        /\ Succeeded(r)
        /\ \E i \in DOMAIN rcvd[r] :
             /\ Len(rcvd[r][i]) = 3
             /\ Malformed(models[r].providerType, rcvd[r][i][2].line)
        /\ \E i \in DOMAIN rcvd[r] :
             /\ Len(rcvd[r][i]) = 1
             /\ Malformed(models[r].providerType, rcvd[r][i][1].line)
        /\ Len(req[r].acc.streamedText) = 1
        /\ settled[r][1].tokenCount = 50

\* The chunks hold a complete line that is malformed.
HasMalformedLine(providerType, chunks) ==
    \E i \in DOMAIN chunks : \E j \in DOMAIN chunks[i] :
        /\ chunks[i][j].part = "whole" /\ chunks[i][j].nl
        /\ Malformed(providerType, chunks[i][j].line)

\* C13 (as claimed): a request with a 2xx response whose stream held a
\* malformed line and ended without an error is successful if and only if
\* some line of the stream was usable (decoded to a JSON object); with
\* malformed lines only it has success = false.
C13_OnlyMalformedFails ==
    \A r \in Requests :
        (/\ Resolved(r)
         /\ thrown[r] = <<>>
         /\ HasMalformedLine(models[r].providerType, rcvd[r]))
            => (settled[r][1].success <=> req[r].acc.parsed # <<>>)

\* C14 (as claimed): a request whose reader.read() fails after some data
\* has been decoded ends successful, with the counts computed from the
\* text and usage accumulated up to the failure.
C14_InterruptedFinalizes ==
    \A r \in Requests :
        (/\ thrown[r] # <<>>
         /\ thrown[r][1].position = "read"
         /\ req[r].acc.parsed # <<>>)
            => /\ Succeeded(r)
               /\ settled[r][1].tokenCount
                    = FinalTokens(req[r].acc.outputTokens,
                                  Len(req[r].acc.streamedText))
               /\ settled[r][1].promptTokens
                    = FinalTokens(req[r].acc.inputTokens, promptLength)

\* C15: a request whose fetch rejects, whatever time has passed since its
\* start, is resolved with a failed result whose totalTime,
\* timeToFirstToken, token counts and tokensPerSecond are all 0 and whose
\* error is the message of the rejection; no response, text() or read()
\* belongs to it.
C15_FetchFailureIsZeroed ==
    \A r \in Requests :
        (thrown[r] # <<>> /\ thrown[r][1].position = "fetch") =>
            /\ Resolved(r)
            /\ LET res == settled[r][1] IN
               /\ ~res.success
               /\ res.totalTime = 0 /\ res.timeToFirstToken = 0
               /\ res.tokenCount = 0 /\ res.promptTokens = 0
               /\ res.totalTokens = 0
               /\ res.tokensPerSecond.num = 0
               /\ res.error = thrown[r][1].message
               /\ res.error # <<>>
            /\ response[r] = <<>> /\ rcvd[r] = <<>>
            /\ calls[r].text = 0 /\ calls[r].read = 0

C15_Witness ==
    \E r \in Requests :
        /\ FailedAt(r, "fetch")
        /\ now > req[r].startTime
        /\ Len(calls[r].fetch) = 1
        /\ batch = "displayed"

\* The endpoint of the model lacks its apiKey or its baseUrl.
Misconfigured(model) ==
    model.providerConfig.apiKey = "" \/ model.providerConfig.baseUrl = <<>>

\* C16: a started request whose endpoint lacks apiKey or baseUrl is
\* resolved with a failed result carrying the "Missing ..." error, and no
\* fetch, text() or read() was ever called for it; every other started
\* request of the batch has had its fetch called, none of them fails with a
\* configuration error, and the batch is not aborted.
C16_ConfigurationFailsFast ==
    /\ batch # "aborted"
    /\ \A r \in Requests :
         req[r].pc # "pending" =>
            IF Misconfigured(models[r])
            THEN /\ Resolved(r)
                 /\ ~settled[r][1].success
                 /\ settled[r][1].error \in
                      {<<"Missing API key for provider",
                         models[r].providerName>>,
                       <<"Missing base URL for provider",
                         models[r].providerName>>}
                 /\ thrown[r][1].position = "config"
                 /\ calls[r] = [fetch |-> <<>>, text |-> 0, read |-> 0]
                 /\ response[r] = <<>>
            ELSE /\ Len(calls[r].fetch) = 1
                 /\ thrown[r] # <<>> => thrown[r][1].position # "config"

C16_Witness ==
    /\ batch = "displayed"
    /\ \E r, q \in Requests :
         /\ FailedAt(r, "config")
         /\ models[r].providerConfig.apiKey # ""
         /\ Succeeded(q) /\ req[q].acc.streamedText # <<>>
         /\ r < q

\* The headers that carry a key, and the one of each provider family.
KeyHeaders == {"Authorization", "x-api-key", "x-goog-api-key"}
OwnKeyHeader(providerType) ==
    IF providerType = "anthropic" THEN "x-api-key"
    ELSE IF providerType = "google" THEN "x-goog-api-key"
    ELSE "Authorization"

\* The path the URL ends with.
PathSuffix(url, n) == SubSeq(url, Len(url) - n + 1, Len(url))

\* C17 (as claimed): every fetch goes to the path of the model's provider
\* family (/chat/completions, /messages,
\* /models/<modelId>:streamGenerateContent) and carries the key in the
\* family's own header (Authorization: Bearer, x-api-key with
\* anthropic-version, x-goog-api-key) and in no other family's header.
C17_UrlAndHeadersByFamily ==
    \A r \in Requests : \A i \in DOMAIN calls[r].fetch :
        LET model == models[r]
            type == model.providerType
            apiKey == model.providerConfig.apiKey
            call == calls[r].fetch[i]
        IN /\ IF type = "anthropic"
              THEN /\ PathSuffix(call.url, 1) = <<"/messages">>
                   /\ "anthropic-version" \in DOMAIN call.headers
              ELSE IF type = "google"
              THEN PathSuffix(call.url, 3)
                     = <<"/models/", ActualModelId(model),
                         ":streamGenerateContent">>
              ELSE PathSuffix(call.url, 1) = <<"/chat/completions">>
           /\ DOMAIN call.headers \cap KeyHeaders = {OwnKeyHeader(type)}
           /\ call.headers[OwnKeyHeader(type)]
                = IF OwnKeyHeader(type) = "Authorization"
                  THEN <<"Bearer ", apiKey>> ELSE <<apiKey>>

\* The top-level fields of the body of each provider family.
BodyShape(providerType) ==
    IF providerType = "anthropic"
    THEN {"model", "messages", "max_tokens", "stream"}
    ELSE IF providerType = "google" THEN {"contents", "generationConfig"}
    ELSE {"model", "messages", "max_tokens", "temperature", "stream"}

\* C18 (as claimed): the top-level fields of the body of every fetch are
\* exactly those of the body shape of the model's provider family, with
\* stream = true where the shape has it.
C18_BodyFieldsByFamily ==
    \A r \in Requests : \A i \in DOMAIN calls[r].fetch :
        LET body == calls[r].fetch[i].body IN
        /\ DOMAIN body = BodyShape(models[r].providerType)
        /\ "stream" \in DOMAIN body => body["stream"] = <<"true">>

\* C19: while the batch is being started no continuation of any request
\* has run (a request is not yet called, awaits its fetch, or has failed
\* its configuration check); the batch waits only once every request has
\* been started; the join never aborts, and it returns, and the results
\* are shown, only when every request is resolved: the array returned and
\* shown has one result per request.
C19_ScatterThenGatherAll ==
    /\ batch = "scatter" =>
         \A r \in Requests :
             /\ req[r].pc \in {"pending", "fetch", "resolved"}
             /\ req[r].pc = "resolved" => FailedAt(r, "config")
             /\ response[r] = <<>>
    /\ batch # "scatter" => \A r \in Requests : req[r].pc # "pending"
    /\ batch # "aborted"
    /\ batch \in {"scatter", "gather"} => results = <<>>
    /\ batch \in {"done", "displayed"} =>
         /\ \A r \in Requests : Resolved(r)
         /\ Len(results) = Cardinality(Requests)
    /\ IF batch = "displayed"
       THEN /\ report.individual = results
            /\ Len(report.display) = 1
       ELSE report = NoReport

C19_Witness ==
    /\ batch = "displayed"
    /\ Len(report.individual) = NumModels
    /\ \E r, q \in Requests :
         /\ FailedAt(r, "fetch")
         /\ Succeeded(q) /\ Len(rcvd[q]) = MaxChunks

\* The place of a result in the array Promise.all returned.
InputIndex(result) == CHOOSE i \in DOMAIN results : results[i] = result

\* tokensPerSecond of a is below that of b, as fractions.
SlowerThan(a, b) ==
    a.tokensPerSecond.num * b.tokensPerSecond.den
        < b.tokensPerSecond.num * a.tokensPerSecond.den

\* ranking holds each successful result once, so that its indexes are the
\* ranks 1..k of the k successful results.
RanksSuccessful(ranking) ==
    LET successful == {i \in DOMAIN results : results[i].success} IN
    /\ Len(ranking) = Cardinality(successful)
    /\ \A j \in DOMAIN ranking : \E i \in successful : ranking[j] = results[i]
    /\ \A i \in successful : \E j \in DOMAIN ranking : ranking[j] = results[i]

\* C20: the results shown hold two rankings, each with every successful
\* result exactly once at the ranks 1..k. In the first, totalTime never
\* decreases with the rank; in the second, tokensPerSecond never increases;
\* in both, of two results with equal keys the one earlier in the input has
\* the lower rank.
C20_TwoStableRankings ==
    batch = "displayed" =>
        LET byTime == report.display[1].timeSortedResults
            byTps == report.display[1].tpsSortedResults
        IN /\ RanksSuccessful(byTime)
           /\ RanksSuccessful(byTps)
           /\ \A i, j \in DOMAIN byTime :
                i < j =>
                  /\ byTime[i].totalTime <= byTime[j].totalTime
                  /\ byTime[i].totalTime = byTime[j].totalTime
                       => InputIndex(byTime[i]) < InputIndex(byTime[j])
           /\ \A i, j \in DOMAIN byTps :
                i < j =>
                  /\ ~SlowerThan(byTps[i], byTps[j])
                  /\ ~SlowerThan(byTps[j], byTps[i])
                       => InputIndex(byTps[i]) < InputIndex(byTps[j])

C20_Witness ==
    /\ batch = "displayed"
    /\ LET byTime == report.display[1].timeSortedResults
           byTps == report.display[1].tpsSortedResults
       IN /\ Len(byTps) = MaxResults
          /\ byTps # report.display[1].successfulResults
          /\ byTps # byTime
          /\ SlowerThan(byTps[2], byTps[1])
          /\ ~SlowerThan(byTps[3], byTps[2])
          /\ byTps[2].totalTokens # byTps[3].totalTokens
          /\ byTime[1].totalTime = byTime[2].totalTime

\* The results of the finished batch that are successful.
SuccessfulResults == {results[i] : i \in {j \in DOMAIN results : results[j].success}}

\* The sum of tokensPerSecond (a number) over the positions of the array.
RECURSIVE SumOfTps(_)
SumOfTps(positions) ==
    IF positions = {} THEN 0
    ELSE LET i == CHOOSE j \in positions : TRUE
         IN results[i].tokensPerSecond + SumOfTps(positions \ {i})

\* C21: a failed result is in no ranking and in no aggregate. The table and
\* the two rankings cli.js shows hold exactly the successful results; the
\* summary of benchmark-rest.js takes the mean over exactly the successful
\* results (their sum over their number), and its fastest and its slowest
\* entry are successful results with the greatest and the least
\* tokensPerSecond of the successful ones; with no successful result there
\* is no ranking and no aggregate.
C21_FailedNeverRanked ==
    /\ batch = "displayed" =>
         /\ RanksSuccessful(report.display[1].sortedResults)
         /\ RanksSuccessful(report.display[1].timeSortedResults)
         /\ RanksSuccessful(report.display[1].tpsSortedResults)
    /\ batch = "summarized" =>
         LET summary == report.display[1]
             successful == {i \in DOMAIN results : results[i].success}
         IN IF successful = {} THEN summary.aggregates = <<>>
            ELSE /\ Len(summary.aggregates) = 1
                 /\ summary.aggregates[1].avgTps
                        = [num |-> SumOfTps(successful),
                           den |-> Cardinality(successful)]
                 /\ summary.aggregates[1].fastest \in SuccessfulResults
                 /\ summary.aggregates[1].slowest \in SuccessfulResults
                 /\ \A result \in SuccessfulResults :
                      /\ result.tokensPerSecond
                            <= summary.aggregates[1].fastest.tokensPerSecond
                      /\ result.tokensPerSecond
                            >= summary.aggregates[1].slowest.tokensPerSecond

C21_Witness ==
    /\ batch = "summarized"
    /\ report.display[1].failed = 1
    /\ report.display[1].successful = MaxResults - 1
    /\ LET aggregates == report.display[1].aggregates[1]
       IN /\ aggregates.slowest.tokensPerSecond > 0
          /\ aggregates.fastest.tokensPerSecond
                > aggregates.slowest.tokensPerSecond
          /\ aggregates.avgTps.den = MaxResults - 1

\* The failed results the report lists apart from the table: the FAILED
\* BENCHMARKS of cli.js, the Failed benchmarks of benchmark-rest.js.
ListedFailures ==
    IF batch = "displayed" THEN report.display[1].failedResults
    ELSE report.display[1].failedBenchmarks

\* C22: once the report of a finished batch is shown, every failed result
\* is in the list of failures of the report, with its model, its provider
\* and the text of its error, the batch in which no result is successful
\* included.
C22_EveryFailureListed ==
    batch \in {"displayed", "summarized"} =>
        \A i \in DOMAIN results :
            ~results[i].success =>
                \E j \in DOMAIN ListedFailures :
                    /\ ListedFailures[j].model = results[i].model
                    /\ ListedFailures[j].provider = results[i].provider
                    /\ ListedFailures[j].error = results[i].error

\* The bytes of a response body: its chunks, one after the other.
RECURSIVE Bytes(_)
Bytes(chunks) ==
    IF chunks = <<>> THEN <<>> ELSE Head(chunks) \o Bytes(Tail(chunks))

\* The lines of a response body, the last one included when no newline
\* follows it.
AllLines(chunks) ==
    LET split == SplitLines(<<>>, Bytes(chunks), <<>>)
    IN IF split.buffer = <<>> THEN split.lines
       ELSE Append(split.lines, split.buffer)

\* The lines before the first sentinel line (all of them without one).
BeforeSentinel(lines) ==
    LET sentinels == {i \in DOMAIN lines : TrimmedLine(lines[i]) = DoneLine}
    IN IF sentinels = {} THEN lines
       ELSE SubSeq(lines, 1,
                   (CHOOSE i \in sentinels : \A j \in sentinels : i <= j) - 1)

\* choices[0].delta.content of the `data: ` lines that are JSON objects,
\* one after the other.
RECURSIVE DeltaContent(_)
DeltaContent(lines) ==
    IF lines = <<>> THEN <<>>
    ELSE LET line == TrimmedLine(Head(lines))
         IN (IF line.prefix = "data: " /\ line.kind = "json"
             THEN line.text ELSE <<>>) \o DeltaContent(Tail(lines))

\* No line of the body carries a usage count.
NoUsageChunk(chunks) ==
    \A i \in DOMAIN AllLines(chunks) :
        LET line == TrimmedLine(AllLines(chunks)[i])
        IN line.inTok = <<>> /\ line.outTok = <<>>

\* C23 (as claimed): the successful result of an OpenAI-compatible request
\* whose body carried no usage count has the text made of the delta
\* contents of every `data: ` line before the sentinel, in their order, and
\* nothing else; its output count is round(length / 4) of that text and
\* estimatedOutput is true.
C23_TextBeforeSentinelEstimated ==
    \A r \in Requests :
        (/\ Succeeded(r)
         /\ models[r].providerType = "openai-compatible"
         /\ NoUsageChunk(rcvd[r]))
            => LET text == DeltaContent(BeforeSentinel(AllLines(rcvd[r])))
               IN /\ req[r].acc.streamedText = text
                  /\ settled[r][1].tokenCount = (Len(text) + 2) \div 4
                  /\ settled[r][1].usedEstimateForOutput

\* The line with an `event: ` line emptied and with `data: ` put before a
\* bare JSON object.
SseLine(line) ==
    IF line.prefix = "event: " THEN BlankLine
    ELSE IF line.prefix = "" /\ line.kind = "json"
    THEN [line EXCEPT !.prefix = "data: "]
    ELSE line

\* The accumulators of an Anthropic decoder that gets the complete lines of
\* the chunks as SseLine makes them.
RECURSIVE AsSse(_, _, _)
AsSse(chunks, buffer, acc) ==
    IF chunks = <<>> THEN acc
    ELSE LET split == SplitLines(buffer, Head(chunks), <<>>)
             lines == [i \in DOMAIN split.lines |->
                         <<[line |-> SseLine(TrimmedLine(split.lines[i])),
                            part |-> "whole"]>>]
             dec == DecodeLines("anthropic", lines, acc)
         IN AsSse(Tail(chunks), split.buffer, dec.acc)

\* The Anthropic message_delta events that report a non-zero output_tokens.
OutputDeltas(parsed) ==
    {i \in DOMAIN parsed :
        parsed[i].type = "message_delta" /\ Num(parsed[i].outTok) # 0}

\* C24: for an Anthropic stream, a non-zero input_tokens of the (last)
\* message_start is the input count of the request and of its result, and a
\* non-zero output_tokens of the (last) message_delta that reports one is
\* the output count, the estimated flag of a count so taken being false;
\* the text and the counts are those of a decoder that gets the same
\* stream with every `event: ` line emptied and every bare JSON line behind
\* a `data: ` prefix.
C24_AnthropicUsageAndLines ==
    \A r \in Requests :
        (models[r].providerType = "anthropic"
         /\ req[r].pc \in {"read", "resolved"}) =>
            LET acc == req[r].acc
                parsed == acc.parsed
                start == LastStart("anthropic", parsed)
                last == CHOOSE i \in OutputDeltas(parsed) :
                            \A j \in OutputDeltas(parsed) : j <= i
                sse == AsSse(rcvd[r], <<>>, NoLocals.acc)
            IN /\ (start > 0 /\ Num(parsed[start].inTok) # 0) =>
                    /\ acc.inputTokens = parsed[start].inTok[1]
                    /\ Succeeded(r) =>
                         /\ settled[r][1].promptTokens = parsed[start].inTok[1]
                         /\ ~settled[r][1].usedEstimateForInput
               /\ OutputDeltas(parsed) # {} =>
                    /\ acc.outputTokens = parsed[last].outTok[1]
                    /\ Succeeded(r) =>
                         /\ settled[r][1].tokenCount = parsed[last].outTok[1]
                         /\ ~settled[r][1].usedEstimateForOutput
               /\ acc.streamedText = sse.streamedText
               /\ acc.inputTokens = sse.inputTokens
               /\ acc.outputTokens = sse.outputTokens

C24_Witness ==
    \E r \in Requests :
        /\ Succeeded(r)
        /\ models[r].providerType = "anthropic"
        /\ Len(rcvd[r]) = 2
        /\ Len(rcvd[r][1]) = 2 /\ Len(rcvd[r][2]) = 1
        /\ rcvd[r][1][1].line = EventLine
        /\ rcvd[r][1][2].line.prefix = ""
        /\ rcvd[r][1][2].line.type = "message_start"
        /\ rcvd[r][2][1].line.type = "message_delta"
        /\ settled[r][1].promptTokens = 14
        /\ settled[r][1].tokenCount = 50
        /\ ~settled[r][1].usedEstimateForInput
        /\ ~settled[r][1].usedEstimateForOutput

\* The state of request r in the terms of the specification: 0 Pending
\* (not called yet), 1 Dispatched (awaiting fetch), 2 AwaitingFirstByte
\* (awaiting the first chunk of a 2xx response, or the text of an error
\* response), 3 Streaming (a chunk has come), 4 Completed or Failed.
Phase(requests, chunks, r) ==
    IF requests[r].pc = "pending" THEN 0
    ELSE IF requests[r].pc = "fetch" THEN 1
    ELSE IF requests[r].pc = "text" THEN 2
    ELSE IF requests[r].pc = "read"
    THEN (IF chunks[r] = <<>> THEN 2 ELSE 3)
    ELSE 4

\* C25: in every step a request stays in its state or moves to a later
\* one; its text and usage change only in a step in which it reads a chunk
\* (it is Streaming after the step); a request that is Completed or Failed
\* changes no more; its result is created in the step that takes it to
\* Completed or Failed, one result, and neither that result nor the array
\* of the results of the batch changes afterwards.
C25_ForwardOnlyResultOnce ==
    [][\A r \in Requests :
         /\ Phase(req', rcvd', r) >= Phase(req, rcvd, r)
         /\ req'[r].acc # req[r].acc =>
              /\ req[r].pc = "read"
              /\ Len(rcvd'[r]) = Len(rcvd[r]) + 1
              /\ Phase(req', rcvd', r) = 3
         /\ Phase(req, rcvd, r) = 4 =>
              /\ req'[r] = req[r]
              /\ settled'[r] = settled[r]
              /\ Len(settled[r]) = 1
         /\ Phase(req, rcvd, r) < 4 =>
              /\ settled[r] = <<>>
              /\ IF Phase(req', rcvd', r) = 4
                 THEN Len(settled'[r]) = 1
                 ELSE settled'[r] = <<>>
         /\ results # <<>> => results' = results]_vars

C25_Witness ==
    \E r \in Requests :
        /\ Succeeded(r)
        /\ Len(calls[r].fetch) = 1
        /\ Len(rcvd[r]) = MaxChunks
        /\ req[r].acc.streamedText # <<>>
        /\ req[r].firstTokenTime > req[r].startTime
        /\ batch = "displayed"
        /\ results = settled[r]

\* The decoded objects that carried the input (the output) field.
InputReports(providerType, parsed) ==
    {i \in DOMAIN parsed :
        CarriesInput(providerType, parsed[i]) /\ parsed[i].inTok # <<>>}
OutputReports(providerType, parsed) ==
    {i \in DOMAIN parsed :
        CarriesOutput(providerType, parsed[i]) /\ parsed[i].outTok # <<>>}

\* The greatest and the least position of a non-empty set of positions.
Latest(positions) == CHOOSE i \in positions : \A j \in positions : j <= i
Earliest(positions) == CHOOSE i \in positions : \A j \in positions : i <= j

\* C26 (as claimed): the input count and the output count a request holds
\* are the values of the last decoded object that carried the field, for
\* every provider type.
C26_LaterValueWins ==
    \A r \in Requests :
        req[r].pc \in {"read", "resolved"} =>
            LET type == models[r].providerType
                parsed == req[r].acc.parsed
                inputs == InputReports(type, parsed)
                outputs == OutputReports(type, parsed)
            IN /\ inputs # {} =>
                    req[r].acc.inputTokens = parsed[Latest(inputs)].inTok[1]
               /\ outputs # {} =>
                    req[r].acc.outputTokens = parsed[Latest(outputs)].outTok[1]

\* The positions of a set whose count (input or output) is not 0.
NonZeroInputs(parsed, positions) ==
    {i \in positions : Num(parsed[i].inTok) # 0}
NonZeroOutputs(parsed, positions) ==
    {i \in positions : Num(parsed[i].outTok) # 0}

\* C26 (amended): the count a request holds is the last non-zero value
\* reported for the field (0 when there is none), but for the input count
\* of an Anthropic stream: that is the input_tokens of the last
\* message_start with usage when it is not 0, and otherwise the first
\* non-zero input_tokens of a message_delta after that message_start. A
\* non-zero count is the count of a successful result.
C26_LastNonZeroOrFirstForAnthropicInput ==
    \A r \in Requests :
        req[r].pc \in {"read", "resolved"} =>
            LET type == models[r].providerType
                parsed == req[r].acc.parsed
                outputs == NonZeroOutputs(parsed, OutputReports(type, parsed))
                start == LastStart(type, parsed)
                inputs ==
                    NonZeroInputs(parsed,
                        {i \in InputReports(type, parsed) : i >= start})
                input ==
                    IF inputs = {} THEN 0
                    ELSE IF type # "anthropic"
                    THEN parsed[Latest(inputs)].inTok[1]
                    ELSE parsed[Earliest(inputs)].inTok[1]
                output == IF outputs = {} THEN 0
                          ELSE parsed[Latest(outputs)].outTok[1]
            IN /\ req[r].acc.inputTokens = input
               /\ req[r].acc.outputTokens = output
               /\ Succeeded(r) =>
                    /\ input # 0 => settled[r][1].promptTokens = input
                    /\ output # 0 => settled[r][1].tokenCount = output

C26_Witness ==
    \E r \in Requests :
        /\ Succeeded(r)
        /\ models[r].providerType = "anthropic"
        /\ LET parsed == req[r].acc.parsed
           IN /\ Len(parsed) = 2
              /\ parsed[1].type = "message_start" /\ parsed[1].inTok = <<14>>
              /\ parsed[2].type = "message_delta" /\ parsed[2].inTok = <<7>>
        /\ settled[r][1].promptTokens = 14

\* C27: the time of the first token is recorded in the step in which the
\* first chunk of the body arrives, as the time of that step, whatever the
\* chunk holds; it is not recorded before, no later step changes it, and
\* timeToFirstToken of the successful result of a request that got a chunk
\* is that time less the start time.
C27_FirstChunkOnce ==
    [][\A r \in Requests :
         /\ rcvd[r] = <<>> => req[r].firstTokenTime = 0
         /\ (rcvd[r] = <<>> /\ rcvd'[r] # <<>>) =>
              req'[r].firstTokenTime = now
         /\ rcvd[r] # <<>> =>
              /\ req[r].firstTokenTime # 0
              /\ req'[r].firstTokenTime = req[r].firstTokenTime
         /\ (rcvd[r] # <<>> /\ ~Succeeded(r) /\ Succeeded(r)') =>
              settled'[r][1].timeToFirstToken
                  = req[r].firstTokenTime - req[r].startTime]_vars

C27_Witness ==
    \E r \in Requests :
        /\ Succeeded(r)
        /\ Len(rcvd[r]) = 2
        /\ rcvd[r][1] = <<Whole(BadLine(""))>>
        /\ req[r].acc.parsed # <<>>
        /\ req[r].firstTokenTime = 2
        /\ settled[r][1].timeToFirstToken = 1
        /\ settled[r][1].totalTime = 2

\* The accumulators of a decoder that gets the bytes of the chunks as one
\* chunk.
AsOneChunk(providerType, chunks) ==
    Alone(providerType, <<Bytes(chunks)>>,
          Locals("read", 1, 0, TRUE, <<>>, NoLocals.acc)).acc

\* C28 (as claimed): the text and the usage values a request holds, and
\* the token counts and the estimated flags of its successful result, are
\* those of a request that gets the same bytes cut in another way, here as
\* one chunk.
C28_ChunkingIndependent ==
    \A r \in Requests :
        req[r].pc \in {"read", "resolved"} =>
            LET one == AsOneChunk(models[r].providerType, rcvd[r])
            IN /\ req[r].acc.streamedText = one.streamedText
               /\ req[r].acc.inputTokens = one.inputTokens
               /\ req[r].acc.outputTokens = one.outputTokens
               /\ Succeeded(r) =>
                    /\ settled[r][1].tokenCount
                         = FinalTokens(one.outputTokens,
                                       Len(one.streamedText))
                    /\ settled[r][1].promptTokens
                         = FinalTokens(one.inputTokens, promptLength)
                    /\ settled[r][1].usedEstimateForOutput
                         = UsedEstimate(one.outputTokens)
                    /\ settled[r][1].usedEstimateForInput
                         = UsedEstimate(one.inputTokens)

\* The accumulators of a decoder that gets the chunks and then a newline.
NewlineAtEnd(providerType, chunks) ==
    Alone(providerType, Append(chunks, <<Item(BlankLine, "whole", TRUE)>>),
          Locals("read", 1, 0, TRUE, <<>>, NoLocals.acc)).acc

\* C29 (as claimed): the text and the counts of a successful result are
\* those of the same body with a newline at its end: a last line after
\* which no newline came counts as a line.
C29_LastLineDecoded ==
    \A r \in Requests :
        Succeeded(r) =>
            LET closed == NewlineAtEnd(models[r].providerType, rcvd[r])
            IN /\ req[r].acc.streamedText = closed.streamedText
               /\ settled[r][1].tokenCount
                    = FinalTokens(closed.outputTokens,
                                  Len(closed.streamedText))
               /\ settled[r][1].promptTokens
                    = FinalTokens(closed.inputTokens, promptLength)

\* C30: under the fair scheduling of SpecFair (every network call settles,
\* every body closes or fails) every request that has issued its fetch
\* gets its result and the batch delivers the NumModels results and shows
\* them; and in any case, as long as one request has no result (its body
\* has not closed) the batch has no results and shows none.
C30_DeliversIffEveryBodyEnds ==
    /\ \A r \in 1..NumModels : (req[r].pc = "fetch") ~> Resolved(r)
    /\ <>(batch = "displayed" /\ Len(results) = NumModels)
    /\ [](\A r \in 1..NumModels :
             ~Resolved(r) => (results = <<>> /\ report = NoReport))

C30_Witness ==
    /\ batch = "displayed"
    /\ Len(report.individual) = NumModels
    /\ \E r, q \in Requests :
         /\ Succeeded(r) /\ Len(rcvd[r]) = MaxChunks
         /\ FailedAt(q, "read") /\ Len(rcvd[q]) = 1

\* The fetch calls of request r that have settled: rejected, or resolved
\* with a response.
FetchOutcomes(errors, responses, r) ==
    Cardinality({i \in DOMAIN errors[r] : errors[r][i].position = "fetch"})
        + Len(responses[r])

\* C31: a request calls fetch at most once and that call settles at most
\* once; a request in whose call an error was thrown is failed from that
\* step on; and a failed request calls nothing any more and keeps its
\* failed result.
C31_NoRetry ==
    [][\A r \in Requests :
         /\ Len(calls'[r].fetch) <= 1
         /\ FetchOutcomes(thrown', response', r) <= Len(calls'[r].fetch)
         /\ thrown'[r] # <<>> =>
              /\ Len(thrown'[r]) = 1
              /\ req'[r].pc = "resolved"
              /\ Len(settled'[r]) = 1 /\ ~settled'[r][1].success
         /\ (Resolved(r) /\ ~settled[r][1].success) =>
              /\ calls'[r] = calls[r]
              /\ response'[r] = response[r]
              /\ req'[r] = req[r]
              /\ settled'[r] = settled[r]]_vars

C31_Witness ==
    \E r \in Requests :
        /\ FailedAt(r, "fetch")
        /\ Len(calls[r].fetch) = 1
        /\ response[r] = <<>>
        /\ batch = "displayed"
        /\ now = MaxTime

\* entry is a successful result of the batch and, of the successful
\* results with its tokensPerSecond, the first in the order in which
\* runParallel returned them (model is the place of a result in that
\* order).
FirstOfEqual(entry) ==
    /\ entry \in SuccessfulResults
    /\ \A result \in SuccessfulResults :
         result.tokensPerSecond = entry.tokensPerSecond
             => entry.model <= result.model

\* C32: the summary of a batch with a successful result holds the mean of
\* tokensPerSecond of the successful results, as fastest a successful
\* result of the greatest tokensPerSecond and as slowest one of the least,
\* each the first of its equals in input order; the summary of a batch
\* without a successful result holds no aggregate.
C32_MeanFastestSlowest ==
    batch = "summarized" =>
        LET summary == report.display[1]
            successful == {i \in DOMAIN results : results[i].success}
        IN IF successful = {} THEN summary.aggregates = <<>>
           ELSE LET aggregates == summary.aggregates[1] IN
                /\ aggregates.avgTps.den = Cardinality(successful)
                /\ aggregates.avgTps.num = SumOfTps(successful)
                /\ FirstOfEqual(aggregates.fastest)
                /\ FirstOfEqual(aggregates.slowest)
                /\ \A result \in SuccessfulResults :
                     /\ result.tokensPerSecond
                           <= aggregates.fastest.tokensPerSecond
                     /\ aggregates.slowest.tokensPerSecond
                           <= result.tokensPerSecond

C32_Witness ==
    /\ batch = "summarized"
    /\ report.display[1].successful = MaxResults
    /\ LET aggregates == report.display[1].aggregates[1]
       IN /\ aggregates.slowest.tokensPerSecond
                < aggregates.fastest.tokensPerSecond
          /\ aggregates.fastest.model = 2
          /\ \E i \in DOMAIN results :
               /\ results[i].model = 3
               /\ results[i].tokensPerSecond
                    = aggregates.fastest.tokensPerSecond

\* A headless run with nothing to resolve: --bench names a provider and a
\* model of the configuration, and an API key is at hand.
HeadlessResolves(args) ==
    /\ args.format /\ args.loads /\ args.provider /\ args.model
    /\ FinalApiKey(args) # ""

\* C33: a headless run that has ended has called the benchmark exactly once,
\* has printed exactly one record and has left with status 0 exactly when
\* the record has success = true; when the provider, the model or the API
\* key is not found it has left with a status other than 0 and has called
\* neither the benchmark nor fetch.
C33_OneRequestOneRecord ==
    headless.pc = "exited" =>
        IF HeadlessResolves(headless.args)
        THEN /\ headless.benchmarks = 1
             /\ Len(calls[1].fetch) <= 1
             /\ Len(headless.stdout) = 1
             /\ (headless.exit = <<0>>) <=> headless.stdout[1].success
        ELSE /\ headless.exit # <<0>>
             /\ headless.benchmarks = 0
             /\ calls[1].fetch = <<>>
             /\ headless.stdout = <<>>

\* C34: once a stop signal has been received no new cycle is started, and
\* the process of the tracker ends (reporting that tracking has stopped, or
\* otherwise) only with every cycle it has started completed and written
\* to the CSV file.
C34_StopsAfterCycleInFlight ==
    /\ \A i \in DOMAIN tracker.signals :
           tracker.started = tracker.signals[i].started
    /\ tracker.pc \in {"stopped", "exited"} =>
           tracker.completed = tracker.started

FreshCache(cache, clock) ==
    cache # <<>> /\ cache[1].timestamp > 0
               /\ clock - cache[1].timestamp <= OneHour

NoDuplicateModels(providerList) ==
    \A p \in DOMAIN providerList :
        \A i, j \in DOMAIN providerList[p].models :
            i # j => providerList[p].models[i] # providerList[p].models[j]

\* C37: no provider of a returned catalog has a model twice, and two calls
\* of the same function made with the same cache file, at the same hour and
\* with models.dev in the same state return the same providers with the
\* same models.
C37_NoDuplicatesIdempotent ==
    /\ \A i \in DOMAIN modelsDev.returned :
           NoDuplicateModels(modelsDev.returned[i].providers)
    /\ \A i, j \in DOMAIN modelsDev.returned :
           LET first == modelsDev.returned[i]
               second == modelsDev.returned[j]
           IN (/\ first.op = second.op
               /\ first.cache = second.cache
               /\ first.api = second.api
               /\ first.at = second.at) =>
                  first.providers = second.providers

\* No two entries of the list have the same id.
UniqueIds(list) ==
    \A i, j \in DOMAIN list : i # j => list[i].id # list[j].id

\* Some entry of the list has the id.
Defines(list, id) == \E i \in DOMAIN list : list[i].id = id

\* C38: the list getAllAvailableProviders returns has every id of the three
\* sources once, with the definition of auth.json when it has one, else
\* with one of ai-benchmark-config.json when it has one, else with that of
\* the custom verified providers; and the custom providers of
\* ai-benchmark-config.json never have an id twice.
C38_UniqueIdsPrecedence ==
    /\ UniqueIds(providers.customProviders)
    /\ providers.returned # <<>> =>
         LET list == providers.returned[1].list
             fromConfig == providers.returned[1].customProviders
         IN /\ UniqueIds(list)
            /\ \A id \in ProviderIds :
                 (\/ Defines(providers.authenticated, id)
                  \/ Defines(fromConfig, id)
                  \/ Defines(providers.customVerified, id)) <=>
                     Defines(list, id)
            /\ \A i \in DOMAIN list :
                 list[i].source =
                     IF Defines(providers.authenticated, list[i].id)
                     THEN "auth"
                     ELSE IF Defines(fromConfig, list[i].id)
                     THEN list[i].source
                     ELSE "verified"
            /\ \A i \in DOMAIN list :
                 Defines(fromConfig, list[i].id)
                     /\ ~Defines(providers.authenticated, list[i].id) =>
                         \E j \in DOMAIN fromConfig : fromConfig[j] = list[i]

====
